---------------------------- MODULE Spec2Model ----------------------------
(***************************************************************************)
(* Keyword-driven UI test harness: locator repository, step interpreter    *)
(* and test-case executor.                                                 *)
(*                                                                         *)
(* Text is modelled as a sequence of atoms.  An atom is an indivisible     *)
(* piece of text (a word, a blank, a quote, a brace, a digit); the string  *)
(* operations of the source (in, replace, lower, strip, split, the regular *)
(* expressions) are defined on these sequences.                            *)
(***************************************************************************)
EXTENDS Integers, Naturals, Sequences, FiniteSets, TLC

VARIABLES
    objects,    \* ObjectRepository.objects: ordered name -> locator map
    file,       \* the repository file on disk
    last,       \* the last repository call: operation, arguments, outcome
    context_vars,    \* the context dict of the running test case
    call,       \* the last execute_action call: step, outcome, calls on the page
    generated,  \* history: the name a fill ... Name Field step last generated
    exec        \* the executor: position, test case, loop variables, result

repoVars == <<objects, file, last>>
stepVars == <<context_vars, call, generated>>
vars == <<objects, file, last, context_vars, call, generated, exec>>

-----------------------------------------------------------------------------
(* Bounds *)

MaxObjects == 2     \* entries the repository may hold
MaxContext == 2     \* variables a context may hold
MaxSteps == 3       \* steps of a test case
MaxCases == 2       \* enabled test cases of a file

-----------------------------------------------------------------------------
(* Text primitives *)

\* str.lower() on one atom
LowerPairs ==
    { <<"Save", "save">>, <<"SAVE", "save">>,
      <<"Button", "button">>, <<"BUTTON", "button">>,
      <<"Click", "click">>, <<"Opportunity", "opportunity">>,
      <<"Name", "name">>, <<"Field", "field">>, <<"Username", "username">>,
      <<"Row", "row">>, <<"Tier", "tier">>, <<"Enter", "enter">>,
      <<"Tab", "tab">>, <<"Gold", "gold">>, <<"Welcome", "welcome">>,
      <<"Acme", "acme">>, <<"RANDOM", "random">> }

LowerAtom(a) ==
    IF \E p \in LowerPairs : p[1] = a
    THEN (CHOOSE p \in LowerPairs : p[1] = a)[2]
    ELSE a

\* str.lower()
Lower(s) == [i \in 1..Len(s) |-> LowerAtom(s[i])]

\* s[i:].startswith(p), i counted from 1
MatchAt(s, p, i) ==
    /\ i >= 1
    /\ i + Len(p) - 1 <= Len(s)
    /\ \A j \in 1..Len(p) : s[i + j - 1] = p[j]

\* p in s
Contains(s, p) == \E i \in 1..(Len(s) + 1) : MatchAt(s, p, i)

\* s.replace(p, r) for a non-empty p: leftmost occurrences, not overlapping,
\* the inserted text is not scanned again
RECURSIVE ReplaceFrom(_, _, _, _)
ReplaceFrom(s, p, r, i) ==
    IF i > Len(s) THEN <<>>
    ELSE IF MatchAt(s, p, i) THEN r \o ReplaceFrom(s, p, r, i + Len(p))
    ELSE <<s[i]>> \o ReplaceFrom(s, p, r, i + 1)

Replace(s, p, r) == ReplaceFrom(s, p, r, 1)

\* the decimal digits
DigitAtom == <<"0", "1", "2", "3", "4", "5", "6", "7", "8", "9">>

\* s[a:b] with 1-based inclusive bounds; empty when a > b
Slice(s, a, b) == [i \in 1..(IF b >= a THEN b - a + 1 ELSE 0) |-> s[a + i - 1]]

\* whitespace
IsSpace(a) == a = " "

\* length of the run of blanks that starts at i
RECURSIVE SpacesAt(_, _)
SpacesAt(s, i) ==
    IF i <= Len(s) /\ IsSpace(s[i]) THEN 1 + SpacesAt(s, i + 1) ELSE 0

\* str.lstrip(), str.rstrip(), str.strip()
RECURSIVE LStrip(_)
LStrip(s) == IF s # <<>> /\ IsSpace(Head(s)) THEN LStrip(Tail(s)) ELSE s

RECURSIVE RStrip(_)
RStrip(s) ==
    IF s # <<>> /\ IsSpace(s[Len(s)]) THEN RStrip(Slice(s, 1, Len(s) - 1)) ELSE s

Strip(s) == RStrip(LStrip(s))

\* index of the first blank of s, Len(s) + 1 when there is none
RECURSIVE FirstSpace(_, _)
FirstSpace(s, i) ==
    IF i > Len(s) \/ IsSpace(s[i]) THEN i ELSE FirstSpace(s, i + 1)

\* str.split(): the words between runs of blanks
RECURSIVE Split(_)
Split(s) ==
    LET Words(t, e) ==
            IF t = <<>> THEN <<>>
            ELSE <<Slice(t, 1, e - 1)>> \o Split(Slice(t, e, Len(t)))
        From(t) == Words(t, FirstSpace(t, 1))
    IN  From(LStrip(s))

\* str.split(maxsplit=1): the first word and the rest without its leading
\* blanks
SplitFirst(s) ==
    LET Parts(t, e, rest) ==
            IF t = <<>> THEN <<>>
            ELSE IF rest = <<>> THEN <<Slice(t, 1, e - 1)>>
            ELSE <<Slice(t, 1, e - 1), rest>>
        Cut(t, e) == Parts(t, e, LStrip(Slice(t, e, Len(t))))
        From(t) == Cut(t, FirstSpace(t, 1))
    IN  From(LStrip(s))

\* index of the first occurrence of p in s at or after i, 0 when there is none
RECURSIVE Find(_, _, _)
Find(s, p, i) ==
    IF i + Len(p) - 1 > Len(s) THEN 0
    ELSE IF MatchAt(s, p, i) THEN i
    ELSE Find(s, p, i + 1)

\* s.split(p)[0]
BeforeFirst(s, p) ==
    LET Before(i) == IF i = 0 THEN s ELSE Slice(s, 1, i - 1)
    IN  Before(Find(s, p, 1))

\* s.startswith(q) and s.endswith(q) for a one-atom q
Wrapped(s, q) == s # <<>> /\ s[1] = q /\ s[Len(s)] = q

\* the "remove quotes if present" idiom: s[1:-1] when s starts and ends with
\* the same kind of quote
Unquote(s) ==
    IF Wrapped(s, "\"") \/ Wrapped(s, "'") THEN Slice(s, 2, Len(s) - 1) ELSE s

\* end of a match of  \s+ w1 \s+ w2 ... \s+ wn \s+  that starts at i: the index
\* of the first atom after it, 0 when it does not match there
RECURSIVE KeywordsAt(_, _, _)
KeywordsAt(s, words, i) ==
    LET After(n) ==
            IF n = 0 THEN 0
            ELSE IF words = <<>> THEN i + n
            ELSE IF i + n <= Len(s) /\ s[i + n] = Head(words)
                 THEN KeywordsAt(s, Tail(words), i + n + 1)
                 ELSE 0
    IN  After(SpacesAt(s, i))

\* re.match(r"(.*?)\s+w1\s+...\s+wn\s+(.*)", s): the shortest first group
RECURSIVE KeywordSearch(_, _, _)
KeywordSearch(s, words, i) ==
    LET Here(end) ==
            IF end # 0
            THEN [found  |-> TRUE,
                  before |-> Slice(s, 1, i - 1),
                  after  |-> Slice(s, end, Len(s))]
            ELSE KeywordSearch(s, words, i + 1)
    IN  IF i > Len(s) THEN [found |-> FALSE, before |-> <<>>, after |-> <<>>]
        ELSE Here(KeywordsAt(s, words, i))

MatchKeywords(s, words) == KeywordSearch(s, words, 1)

\* int(s) of a text of decimal digits
DigitOf(a) == CHOOSE d \in 0..9 : DigitAtom[d + 1] = a

IsDigit(a) == \E d \in 0..9 : DigitAtom[d + 1] = a

RECURSIVE ParseDigits(_, _)
ParseDigits(s, acc) ==
    IF s = <<>> THEN acc ELSE ParseDigits(Tail(s), acc * 10 + DigitOf(Head(s)))

IsInt(s) == s # <<>> /\ \A i \in 1..Len(s) : IsDigit(s[i])

\* str(n) of a non-negative int
RECURSIVE Decimal(_)
Decimal(n) ==
    IF n < 10 THEN <<DigitAtom[n + 1]>>
    ELSE Decimal(n \div 10) \o <<DigitAtom[(n % 10) + 1]>>

\* str(value): a text stays as it is, an int is rendered in decimal
Str(v) == IF v.type = "int" THEN Decimal(v.n) ELSE v.s

TextVal(s) == [type |-> "str", s |-> s, n |-> 0]
IntVal(n) == [type |-> "int", s |-> <<>>, n |-> n]

-----------------------------------------------------------------------------
(* Ordered maps (dict): a sequence of [key, value] with distinct keys,     *)
(* in insertion order                                                      *)

HasKey(d, k) == \E i \in 1..Len(d) : d[i].key = k

IndexOf(d, k) == CHOOSE i \in 1..Len(d) : d[i].key = k

\* d[k] = v: an existing key keeps its place, a new key goes last
Put(d, k, v) ==
    IF HasKey(d, k)
    THEN [i \in 1..Len(d) |-> IF d[i].key = k THEN [key |-> k, value |-> v] ELSE d[i]]
    ELSE Append(d, [key |-> k, value |-> v])

\* del d[k]
Del(d, k) ==
    LET n == IndexOf(d, k)
    IN  [i \in 1..(Len(d) - 1) |-> IF i < n THEN d[i] ELSE d[i + 1]]

DistinctKeys(d) == \A i, j \in 1..Len(d) : d[i].key = d[j].key => i = j

-----------------------------------------------------------------------------
(* Inputs of the repository                                                *)

\* object names asked for and stored
Names ==
    { <<>>,
      <<"save">>,
      <<"Save">>,
      <<"Save", " ", "Button">>,
      <<"SAVE", " ", "BUTTON">>,
      <<"x">> }

\* "{key}"
Placeholder(key) == <<"{">> \o key \o <<"}">>

\* locator templates
Locators ==
    { <<"#save">>,
      <<"//div[@id='">> \o Placeholder(<<"id">>) \o <<"']">>,
      Placeholder(<<"id">>) \o Placeholder(<<"k">>) \o Placeholder(<<"id">>) }

ParamKeys == { <<"id">>, <<"k">> }

\* parameter values: a text, an int, a text that reads like a placeholder
ParamValues == { TextVal(<<"4", "2">>), IntVal(7), TextVal(Placeholder(<<"k">>)) }

ParamEntries == { [key |-> k, value |-> v] : k \in ParamKeys, v \in ParamValues }

\* None and {} are both falsy in `if params`: the empty map stands for both
ParamSets ==
    { <<>> }
    \cup { <<e>> : e \in ParamEntries }
    \cup { <<p[1], p[2]>> : p \in { q \in ParamEntries \X ParamEntries :
                                          q[1].key # q[2].key } }

ObjectEntries == { [key |-> n, value |-> l] : n \in Names, l \in Locators }

-----------------------------------------------------------------------------
(* object_repository.py                                                    *)

NoLocator == [exc |-> "none", value |-> <<>>, matched |-> <<>>, tier |-> "none",
              warned |-> FALSE]

\* first entry from index i on whose key satisfies Test, 0 when there is none
\* (the for ... break loops over self.objects.items())
RECURSIVE FirstFrom(_, _, _)
FirstFrom(objs, Test(_), i) ==
    IF i > Len(objs) THEN 0
    ELSE IF Test(objs[i].key) THEN i
    ELSE FirstFrom(objs, Test, i + 1)

CaseInsensitiveHit(objs, name) ==
    LET Test(key) == Lower(key) = Lower(name)
    IN  FirstFrom(objs, Test, 1)

\* the partial tier without "object_lower in key.lower()"
PartialHit_KeyInNameOnly(objs, name) ==
    LET Test(key) == Contains(Lower(name), Lower(key))
    IN  FirstFrom(objs, Test, 1)

\* if key.lower() in object_lower or object_lower in key.lower()
PartialHit(objs, name) ==
    LET Test(key) == \/ Contains(Lower(name), Lower(key))
                     \/ Contains(Lower(key), Lower(name))
    IN  FirstFrom(objs, Test, 1)

\* Lookup with the partial tier tried before the case-insensitive tier
Lookup_PartialFirst(objs, name) ==
    LET Tiers(pm) ==
            IF pm # 0
            THEN [tier |-> "partial", index |-> pm]
            ELSE [tier |-> "none", index |-> 0]
    IN  IF HasKey(objs, name)
        THEN [tier |-> "exact", index |-> IndexOf(objs, name)]
        ELSE Tiers(PartialHit(objs, name))

\* the lookup part of get_object_locator: [tier, index], index 0 = not found
Lookup(objs, name) ==
    LET Tiers(ci, pm) ==
            IF ci # 0 THEN [tier |-> "case", index |-> ci]
            ELSE IF pm # 0 THEN [tier |-> "partial", index |-> pm]
            ELSE [tier |-> "none", index |-> 0]
    IN  IF HasKey(objs, name)
        THEN [tier |-> "exact", index |-> IndexOf(objs, name)]
        ELSE Tiers(CaseInsensitiveHit(objs, name), PartialHit(objs, name))

\* for key, value in params.items(): locator = locator.replace("{key}", str(value))
RECURSIVE SubstituteParams(_, _, _)
SubstituteParams(locator, params, i) ==
    IF i > Len(params) THEN locator
    ELSE LET ph == Placeholder(params[i].key)
         IN  SubstituteParams(
                 IF Contains(locator, ph)
                 THEN Replace(locator, ph, Str(params[i].value))
                 ELSE locator,
                 params, i + 1)

\* re.findall(r'\{([^}]+)\}', locator) is non-empty
MissingParams(locator) ==
    \E i, j \in 1..Len(locator) :
        /\ i + 1 < j
        /\ locator[i] = "{"
        /\ locator[j] = "}"
        /\ \A m \in (i + 1)..(j - 1) : locator[m] # "}"

\* get_object_locator that returns an empty locator instead of raising
get_object_locator_NoRaise(objs, name, params) ==
    LET Found(hit) ==
            IF hit.index = 0
            THEN NoLocator
            ELSE [NoLocator EXCEPT !.value = objs[hit.index].value,
                                   !.matched = objs[hit.index].key,
                                   !.tier = hit.tier]
    IN  Found(Lookup(objs, name))

get_object_locator(objs, name, params) ==
    LET Located(hit, template, substituted) ==
            [exc     |-> "none",
             value   |-> substituted,
             matched |-> objs[hit.index].key,
             tier    |-> hit.tier,
             warned  |-> /\ params # <<>>
                         /\ Contains(template, <<"{">>)
                         /\ Contains(substituted, <<"{">>)
                         /\ Contains(substituted, <<"}">>)
                         /\ MissingParams(substituted)]
        Substituted(hit, template) ==
            Located(hit, template,
                    IF params # <<>> /\ Contains(template, <<"{">>)
                    THEN SubstituteParams(template, params, 1)
                    ELSE template)
        Found(hit) ==
            IF hit.index = 0
            THEN [NoLocator EXCEPT !.exc = "ValueError"]
            ELSE Substituted(hit, objs[hit.index].value)
    IN  Found(Lookup(objs, name))

\* json.dump(self.objects, file)
Dump(objs) == [exists |-> TRUE, valid |-> TRUE, content |-> objs]

MissingFile == [exists |-> FALSE, valid |-> FALSE, content |-> <<>>]
InvalidFile == [exists |-> TRUE, valid |-> FALSE, content |-> <<>>]

\* _load_repository that raises when there is no file
load_repository_MissingRaises(f) ==
    IF ~f.exists
    THEN [exc |-> "FileNotFoundError", objects |-> <<>>, file |-> f]
    ELSE IF ~f.valid
    THEN [exc |-> "ValueError", objects |-> <<>>, file |-> f]
    ELSE [exc |-> "none", objects |-> f.content, file |-> f]

\* ObjectRepository.__init__ / _load_repository
load_repository(f) ==
    IF ~f.exists
    THEN [exc |-> "none", objects |-> <<>>, file |-> Dump(<<>>)]
    ELSE IF ~f.valid
    THEN [exc |-> "ValueError", objects |-> <<>>, file |-> f]
    ELSE [exc |-> "none", objects |-> f.content, file |-> f]

\* add_object that does not write the file
add_object_NoSave(objs, f, name, locator) ==
    [objects |-> Put(objs, name, locator), file |-> f, ret |-> TRUE]

add_object(objs, f, name, locator) ==
    LET Saved(new) == [objects |-> new, file |-> Dump(new), ret |-> TRUE]
    IN  Saved(Put(objs, name, locator))

\* get_all_objects that returns the map of the repository itself
get_all_objects_NoCopy(objs) == [map |-> objs, shared |-> TRUE]

\* return self.objects.copy(): shared tells whether the map returned is the
\* one the repository holds
get_all_objects(objs) == [map |-> objs, shared |-> FALSE]

remove_object(objs, f, name) ==
    LET Saved(new) == [objects |-> new, file |-> Dump(new), ret |-> TRUE]
    IN  IF HasKey(objs, name)
        THEN Saved(Del(objs, name))
        ELSE [objects |-> objs, file |-> f, ret |-> FALSE]

-----------------------------------------------------------------------------
(* enhanced_page_actions.py: outcomes of the calls on the page             *)

\* what one call on the page (the UI capability) may do: succeed, return
\* False / nothing useful, time out (PlaywrightTimeoutError), fail otherwise
Outcomes == { "ok", "no", "Timeout", "Error" }

Fails(out) == out \in { "Timeout", "Error" }

ExcOf(out) == IF out = "Timeout" THEN "TimeoutError" ELSE "Error"

\* timeouts passed to the page, in milliseconds
FindShortTimeout == 5000
FindLongTimeout == 30000
VerifyTimeout == 10000
WaitTimeout == 30000
SelectPause == 500
MillisPerSecond == 1000

\* one call on the page as it was made
PageCall(api, target, arg, num, out) ==
    [api |-> api, target |-> target, arg |-> arg, num |-> num, out |-> out]

\* what inner_text() / input_value() / page.url return
ElementText(out) == IF out = "ok" THEN <<"Acme">> ELSE <<>>

PageUrl(out) ==
    IF out = "ok" THEN <<"https://", "sf.example", "/", "home">>
    ELSE <<"about:blank">>

\* the body of a handler ran to its return True
Done(ctx, calls) ==
    [exc |-> "none", ret |-> TRUE, ctx |-> ctx, calls |-> calls, lookups |-> <<>>]

\* the body of a handler raised
Raise(exc, ctx, calls) ==
    [exc |-> exc, ret |-> FALSE, ctx |-> ctx, calls |-> calls, lookups |-> <<>>]

\* self.object_repository.get_object_locator(name) was called on the way to r
Looked(name, r) == [r EXCEPT !.lookups = <<name>> \o @]

\* a handler without its except clause: what its body raises leaves it
Caught_Propagate(r) == r

\* try: <body> except Exception: return False
Caught(r) == IF r.exc = "none" THEN r ELSE [r EXCEPT !.exc = "none", !.ret = FALSE]

\* one call on the page that ends the handler: return True unless it raises
FinalCall(ctx, calls, api, target, arg, num, out) ==
    LET Made(all) == IF Fails(out) THEN Raise(ExcOf(out), ctx, all) ELSE Done(ctx, all)
    IN  Made(Append(calls, PageCall(api, target, arg, num, out)))

-----------------------------------------------------------------------------
(* enhanced_page_actions.py: the verb handlers.  desc is the text after    *)
(* the verb, ctx the context, objs the repository, o[n] the outcome of the *)
(* n-th call the handler makes on the page.                                *)

\* s.split(sep): the pieces between the occurrences of the one-atom sep
RECURSIVE SplitOn(_, _)
SplitOn(s, sep) ==
    LET Pieces(i) ==
            IF i = 0 THEN <<s>>
            ELSE <<Slice(s, 1, i - 1)>> \o SplitOn(Slice(s, i + 1, Len(s)), sep)
    IN  Pieces(Find(s, <<sep>>, 1))

\* _perform_click: the params of "Object with k1=v1,k2=v2"
RECURSIVE ClickParams(_, _, _)
ClickParams(pieces, ctx, params) ==
    LET Bind(key, value) ==
            ClickParams(Tail(pieces), ctx,
                Put(params, key,
                    IF HasKey(ctx, value)
                    THEN ctx[IndexOf(ctx, value)].value
                    ELSE Unquote(value)))
        Pair(param, eq) ==
            IF eq = 0
            THEN ClickParams(Tail(pieces), ctx, params)
            ELSE Bind(Strip(Slice(param, 1, eq - 1)),
                      Strip(Slice(param, eq + 1, Len(param))))
    IN  IF pieces = <<>> THEN params
        ELSE Pair(Head(pieces), Find(Head(pieces), <<"=">>, 1))

\* for key, value in params.items(): locator = locator.replace("{key}", value)
RECURSIVE DynamicSubstitute(_, _, _)
DynamicSubstitute(locator, params, i) ==
    IF i > Len(params) THEN locator
    ELSE LET ph == Placeholder(params[i].key)
         IN  DynamicSubstitute(
                 IF Contains(locator, ph)
                 THEN Replace(locator, ph, params[i].value)
                 ELSE locator,
                 params, i + 1)

\* _get_dynamic_locator: the lookup raises through (except ...: raise)
get_dynamic_locator(objs, object_name, params) ==
    LET Substituted(found) ==
            IF found.exc # "none" THEN found
            ELSE [found EXCEPT !.value = DynamicSubstitute(found.value, params, 1)]
    IN  Substituted(get_object_locator(objs, object_name, <<>>))

perform_click_body(desc, ctx, objs, o) ==
    LET Click(found) ==
            IF found.exc # "none" THEN Raise(found.exc, ctx, <<>>)
            ELSE FinalCall(ctx, <<>>, "click", found.value, <<>>, 0, o[1])
        Parsed(m) ==
            IF Contains(desc, <<"with">>) /\ Contains(desc, <<"=">>) /\ m.found
            THEN Looked(Strip(m.before),
                     Click(get_dynamic_locator(objs, Strip(m.before),
                               ClickParams(SplitOn(Strip(m.after), ","), ctx, <<>>))))
            ELSE Looked(desc, Click(get_object_locator(objs, desc, <<>>)))
    IN  Parsed(MatchKeywords(desc, <<"with">>))

perform_click(desc, ctx, objs, o) == Caught(perform_click_body(desc, ctx, objs, o))

\* the field is not cleared
ClearFirst_Skipped(locator, out) == <<>>

\* Clear the field first: self.page.fill(locator, "")
ClearFirst(locator, out) == <<PageCall("fill", locator, <<>>, 0, out)>>

perform_fill_body(desc, ctx, objs, o) ==
    LET Fill(value, found, clear) ==
            IF found.exc # "none" THEN Raise(found.exc, ctx, <<>>)
            ELSE IF Fails(o[1]) THEN Raise(ExcOf(o[1]), ctx, clear)
            ELSE FinalCall(ctx, clear, "fill", found.value, value, 0, o[2])
        Field(value, found) ==
            Fill(value, found, ClearFirst(found.value, o[1]))
        Parsed(m) ==
            IF ~m.found THEN Raise("ValueError", ctx, <<>>)
            ELSE Looked(Strip(m.before),
                     Field(Unquote(Strip(m.after)),
                           get_object_locator(objs, Strip(m.before), <<>>)))
    IN  Parsed(MatchKeywords(desc, <<"with">>))

perform_fill(desc, ctx, objs, o) == Caught(perform_fill_body(desc, ctx, objs, o))

\* "${name}"
Ref(name) == <<"${">> \o name \o <<"}">>

\* a retry after any failure of the first click
RetryAfter_AnyError(out) == Fails(out)

\* except PlaywrightTimeoutError: only a timeout of the first click is retried
RetryAfter(out) == out = "Timeout"

find_record_body(desc, ctx, objs, o) ==
    LET Retry(locator, first, reload, idle) ==
            IF ~Fails(o[1]) THEN Done(ctx, first)
            ELSE IF ~RetryAfter(o[1]) THEN Raise(ExcOf(o[1]), ctx, first)
            ELSE IF Fails(o[2]) THEN Raise(ExcOf(o[2]), ctx, reload)
            ELSE IF Fails(o[3]) THEN Raise(ExcOf(o[3]), ctx, idle)
            ELSE FinalCall(ctx, idle, "click", locator, <<>>, FindLongTimeout, o[4])
        Reload(locator, first, reload) ==
            Retry(locator, first, reload,
                  Append(reload,
                         PageCall("wait_for_load_state", <<>>, <<"networkidle">>, 0, o[3])))
        First(locator, first) ==
            Reload(locator, first, Append(first, PageCall("reload", <<>>, <<>>, 0, o[2])))
        \* the same locator for opportunity, account, contact, lead and others
        Click(locator) ==
            First(locator, <<PageCall("click", locator, <<>>, FindShortTimeout, o[1])>>)
        Named(name_value) ==
            Click(<<"//a[contains(@title, '">> \o name_value \o <<"')]">>)
        Value(raw, var_name) ==
            Named(Unquote(IF /\ Len(raw) >= 2
                             /\ raw[1] = "${"
                             /\ raw[Len(raw)] = "}"
                             /\ HasKey(ctx, var_name)
                          THEN ctx[IndexOf(ctx, var_name)].value
                          ELSE raw))
        Raw(raw) == Value(raw, Slice(raw, 2, Len(raw) - 1))
        Parsed(m) ==
            IF ~m.found THEN Raise("ValueError", ctx, <<>>)
            ELSE Raw(Strip(m.after))
    IN  Parsed(MatchKeywords(desc, <<"with", "name">>))

find_record(desc, ctx, objs, o) == Caught(find_record_body(desc, ctx, objs, o))

\* _perform_select with the native selection alone: no fallback to clicks
perform_select_body_NativeOnly(desc, ctx, objs, o) ==
    LET Select(option, found) ==
            IF found.exc # "none" THEN Raise(found.exc, ctx, <<>>)
            ELSE FinalCall(ctx, <<>>, "select_option", found.value, option, 0, o[1])
        Parsed(m) ==
            IF ~m.found THEN Raise("ValueError", ctx, <<>>)
            ELSE Looked(Strip(m.after),
                     Select(Unquote(Strip(m.before)),
                            get_object_locator(objs, Strip(m.after), <<>>)))
    IN  Parsed(MatchKeywords(desc, <<"from">>))

perform_select_body(desc, ctx, objs, o) ==
    LET Tried(option, native, open, pause, by_text) ==
            IF ~Fails(o[1]) THEN Done(ctx, native)
            ELSE IF Fails(o[2]) THEN Raise(ExcOf(o[2]), ctx, open)
            ELSE IF Fails(o[3]) THEN Raise(ExcOf(o[3]), ctx, pause)
            ELSE IF ~Fails(o[4]) THEN Done(ctx, by_text)
            ELSE FinalCall(ctx, by_text, "click",
                     <<"//li[contains(text(), '">> \o option \o <<"')]">>, <<>>, 0, o[5])
        Paused(option, native, open, pause) ==
            Tried(option, native, open, pause,
                  Append(pause, PageCall("click", <<"text=">> \o option, <<>>, 0, o[4])))
        Opened(option, native, open) ==
            Paused(option, native, open,
                   Append(open, PageCall("wait_for_timeout", <<>>, <<>>, SelectPause, o[3])))
        Native(option, found, native) ==
            Opened(option, native,
                   Append(native, PageCall("click", found.value, <<>>, 0, o[2])))
        Select(option, found) ==
            IF found.exc # "none" THEN Raise(found.exc, ctx, <<>>)
            ELSE Native(option, found,
                        <<PageCall("select_option", found.value, option, 0, o[1])>>)
        Parsed(m) ==
            IF ~m.found THEN Raise("ValueError", ctx, <<>>)
            ELSE Looked(Strip(m.after),
                     Select(Unquote(Strip(m.before)),
                            get_object_locator(objs, Strip(m.after), <<>>)))
    IN  Parsed(MatchKeywords(desc, <<"from">>))

perform_select(desc, ctx, objs, o) == Caught(perform_select_body(desc, ctx, objs, o))

\* the check a verify condition makes on the element, "none" for an unknown
\* condition
VerifyCheck(condition) ==
    CASE condition = <<"visible">> -> "wait_visible"
      [] condition = <<"not", " ", "visible">> -> "wait_hidden"
      [] condition = <<"invisible">> -> "wait_hidden"
      [] condition = <<"enabled">> -> "is_enabled"
      [] condition = <<"disabled">> -> "is_not_enabled"
      [] condition = <<"checked">> -> "is_checked"
      [] condition = <<"unchecked">> -> "is_not_checked"
      [] condition = <<"available">> -> "wait_visible"
      [] condition # <<>> /\ Head(condition) = "containing" -> "contains"
      [] OTHER -> "none"

\* the text locator with the quotes of the phrase kept
TextLocator_Quoted(text_or_object) == <<"text=">> \o text_or_object

\* if text_or_object.startswith('"') and text_or_object.endswith('"'):
\*     text_or_object = text_or_object[1:-1]
\* element = self.page.locator(f"text={text_or_object}")
TextLocator(text_or_object) ==
    <<"text=">> \o (IF Wrapped(text_or_object, "\"")
                    THEN Slice(text_or_object, 2, Len(text_or_object) - 1)
                    ELSE text_or_object)

perform_verification_body(desc, ctx, objs, o) ==
    LET Answer(calls, holds) ==
            IF Fails(o[2]) THEN Raise(ExcOf(o[2]), ctx, calls)
            ELSE IF holds THEN Done(ctx, calls)
            ELSE Raise("AssertionError", ctx, calls)
        \* condition[10:].strip(), double quotes removed
        Text(quoted) ==
            IF Wrapped(quoted, "\"") THEN Slice(quoted, 2, Len(quoted) - 1) ELSE quoted
        Check(condition, check, target, element) ==
            IF Fails(o[1]) THEN Raise(ExcOf(o[1]), ctx, element)
            ELSE IF check = "none" THEN Raise("ValueError", ctx, element)
            ELSE IF check = "wait_visible"
            THEN FinalCall(ctx, element, "wait_for", target, <<"visible">>,
                           VerifyTimeout, o[2])
            ELSE IF check = "wait_hidden"
            THEN FinalCall(ctx, element, "wait_for", target, <<"hidden">>,
                           VerifyTimeout, o[2])
            ELSE IF check \in { "is_enabled", "is_not_enabled" }
            THEN Answer(Append(element, PageCall("is_enabled", target, <<>>, 0, o[2])),
                        (o[2] = "ok") = (check = "is_enabled"))
            ELSE IF check \in { "is_checked", "is_not_checked" }
            THEN Answer(Append(element, PageCall("is_checked", target, <<>>, 0, o[2])),
                        (o[2] = "ok") = (check = "is_checked"))
            ELSE Answer(Append(element, PageCall("inner_text", target, <<>>, 0, o[2])),
                        Contains(ElementText(o[2]), Text(Strip(Tail(condition)))))
        Element(condition, target) ==
            Check(condition, VerifyCheck(condition), target,
                  <<PageCall("locator", target, <<>>, 0, o[1])>>)
        \* except ValueError: not in the repository, try as text
        Target(text_or_object, condition, found) ==
            Element(condition,
                    IF found.exc = "none" THEN found.value
                    ELSE TextLocator(text_or_object))
        Subject(text_or_object, condition) ==
            Looked(text_or_object,
                   Target(text_or_object, condition,
                          get_object_locator(objs, text_or_object, <<>>)))
        Parsed(m) ==
            IF ~m.found THEN Raise("ValueError", ctx, <<>>)
            ELSE Subject(Strip(m.before), Strip(m.after))
    IN  Parsed(MatchKeywords(desc, <<"is">>))

perform_verification(desc, ctx, objs, o) ==
    Caught(perform_verification_body(desc, ctx, objs, o))

\* the wait passed on in seconds
WaitMillis_Seconds(seconds) == seconds

\* self.page.wait_for_timeout(seconds * 1000)
WaitMillis(seconds) == seconds * MillisPerSecond

perform_wait_body(desc, ctx, objs, o) ==
    LET Seconds(seconds_str) ==
            IF ~IsInt(seconds_str) THEN Raise("ValueError", ctx, <<>>)
            ELSE FinalCall(ctx, <<>>, "wait_for_timeout", <<>>, <<>>,
                     WaitMillis(ParseDigits(seconds_str, 0)), o[1])
        Until(condition, found, element) ==
            IF found.exc # "none" THEN Raise(found.exc, ctx, <<>>)
            ELSE IF Fails(o[1]) THEN Raise(ExcOf(o[1]), ctx, element)
            ELSE IF condition = <<"visible">>
            THEN FinalCall(ctx, element, "wait_for", found.value, <<"visible">>,
                     WaitTimeout, o[2])
            ELSE IF condition \in { <<"invisible">>, <<"not", " ", "visible">> }
            THEN FinalCall(ctx, element, "wait_for", found.value, <<"hidden">>,
                     WaitTimeout, o[2])
            ELSE Raise("ValueError", ctx, element)
        Element(condition, found) ==
            Until(condition, found, <<PageCall("locator", found.value, <<>>, 0, o[1])>>)
        \* re.match(r"for\s+(.*?)\s+to\s+be\s+(.*)", desc)
        For(m) ==
            IF ~m.found THEN Raise("ValueError", ctx, <<>>)
            ELSE Looked(Strip(m.before),
                     Element(Strip(m.after),
                             get_object_locator(objs, Strip(m.before), <<>>)))
    IN  IF desc # <<>> /\ desc[Len(desc)] \in { "seconds", "second" }
        THEN Seconds(Split(desc)[1])
        ELSE IF Contains(desc, <<"for">>)
        THEN For(IF desc # <<>> /\ desc[1] = "for" /\ SpacesAt(desc, 2) > 0
                 THEN MatchKeywords(Slice(desc, 3, Len(desc)), <<"to", "be">>)
                 ELSE [found |-> FALSE, before |-> <<>>, after |-> <<>>])
        ELSE Raise("ValueError", ctx, <<>>)

perform_wait(desc, ctx, objs, o) == Caught(perform_wait_body(desc, ctx, objs, o))

\* url.lstrip('/')
RECURSIVE LStripSlash(_)
LStripSlash(s) == IF s # <<>> /\ Head(s) = "/" THEN LStripSlash(Tail(s)) ELSE s

perform_navigate_body(desc, ctx, objs, o) ==
    LET \* re.match(r'(https?://[^/]+)', current_url)
        Based(current_url) ==
            /\ Len(current_url) >= 2
            /\ current_url[1] \in { "http://", "https://" }
            /\ current_url[2] # "/"
        Relative(url, current, current_url) ==
            IF Fails(o[1]) THEN Raise(ExcOf(o[1]), ctx, current)
            ELSE IF ~Based(current_url) THEN Raise("AttributeError", ctx, current)
            ELSE FinalCall(ctx, current, "goto",
                     Slice(current_url, 1, 2) \o <<"/">> \o LStripSlash(url), <<>>, 0, o[2])
        Goto(url) ==
            IF url # <<>> /\ Head(url) \in { "http://", "https://" }
            THEN FinalCall(ctx, <<>>, "goto", url, <<>>, 0, o[1])
            ELSE Relative(url, <<PageCall("url", <<>>, <<>>, 0, o[1])>>, PageUrl(o[1]))
    IN  Goto(Unquote(desc))

perform_navigate(desc, ctx, objs, o) == Caught(perform_navigate_body(desc, ctx, objs, o))

\* re.sub(r'[^a-zA-Z0-9_-]', '_', description) on one atom
SanitizeAtom(a) == IF a \in { " ", "\"", "'", "=", ",", "/", "{", "}", "${" } THEN "_" ELSE a

take_screenshot_body(desc, ctx, t, o) ==
    LET Shot(filename) ==
            FinalCall(ctx, <<>>, "screenshot", <<>>,
                      <<"screenshots/">> \o filename \o <<".png">>, 0, o[1])
    IN  Shot(IF desc # <<>>
             THEN [i \in 1..Len(desc) |-> SanitizeAtom(desc[i])]
             ELSE <<"screenshot_">> \o Decimal(t))

take_screenshot(desc, ctx, t, o) == Caught(take_screenshot_body(desc, ctx, t, o))

\* _store_value that binds the variable before it reads the element: the
\* binding is made when the reading raises, too
store_value_body_BindsFirst(desc, ctx, objs, o) ==
    LET Read(variable_name, from_text, found, element) ==
            IF found.exc # "none" THEN Raise(found.exc, Put(ctx, variable_name, <<>>), <<>>)
            ELSE IF Fails(o[1])
            THEN Raise(ExcOf(o[1]), Put(ctx, variable_name, <<>>), element)
            ELSE IF Fails(o[2])
            THEN Raise(ExcOf(o[2]), Put(ctx, variable_name, <<>>),
                       Append(element,
                              PageCall(IF from_text THEN "inner_text" ELSE "input_value",
                                       found.value, <<>>, 0, o[2])))
            ELSE Done(Put(ctx, variable_name, ElementText(o[2])),
                      Append(element,
                             PageCall(IF from_text THEN "inner_text" ELSE "input_value",
                                      found.value, <<>>, 0, o[2])))
        Element(variable_name, from_text, found) ==
            Read(variable_name, from_text, found,
                 <<PageCall("locator", found.value, <<>>, 0, o[1])>>)
        Store(value_expr, variable_name, from_text, from_value) ==
            IF from_text
            THEN Looked(Strip(Replace(value_expr, <<"text", " ", "from">>, <<>>)),
                     Element(variable_name, TRUE,
                         get_object_locator(objs,
                             Strip(Replace(value_expr, <<"text", " ", "from">>, <<>>)),
                             <<>>)))
            ELSE IF from_value
            THEN Looked(Strip(Replace(value_expr, <<"value", " ", "from">>, <<>>)),
                     Element(variable_name, FALSE,
                         get_object_locator(objs,
                             Strip(Replace(value_expr, <<"value", " ", "from">>, <<>>)),
                             <<>>)))
            ELSE Done(Put(ctx, variable_name, Unquote(value_expr)), <<>>)
        Expr(value_expr, variable_name) ==
            Store(value_expr, variable_name,
                  Contains(value_expr, <<"text", " ", "from">>),
                  Contains(value_expr, <<"value", " ", "from">>))
        Parsed(m) ==
            IF ~m.found THEN Raise("ValueError", ctx, <<>>)
            ELSE Expr(Strip(m.before), Strip(m.after))
    IN  Parsed(MatchKeywords(desc, <<"as">>))

store_value_body(desc, ctx, objs, o) ==
    LET Read(variable_name, from_text, found, element) ==
            IF found.exc # "none" THEN Raise(found.exc, ctx, <<>>)
            ELSE IF Fails(o[1]) THEN Raise(ExcOf(o[1]), ctx, element)
            ELSE IF Fails(o[2])
            THEN Raise(ExcOf(o[2]), ctx,
                       Append(element,
                              PageCall(IF from_text THEN "inner_text" ELSE "input_value",
                                       found.value, <<>>, 0, o[2])))
            ELSE Done(Put(ctx, variable_name, ElementText(o[2])),
                      Append(element,
                             PageCall(IF from_text THEN "inner_text" ELSE "input_value",
                                      found.value, <<>>, 0, o[2])))
        Element(variable_name, from_text, found) ==
            Read(variable_name, from_text, found,
                 <<PageCall("locator", found.value, <<>>, 0, o[1])>>)
        Store(value_expr, variable_name, from_text, from_value) ==
            IF from_text
            THEN Looked(Strip(Replace(value_expr, <<"text", " ", "from">>, <<>>)),
                     Element(variable_name, TRUE,
                         get_object_locator(objs,
                             Strip(Replace(value_expr, <<"text", " ", "from">>, <<>>)),
                             <<>>)))
            ELSE IF from_value
            THEN Looked(Strip(Replace(value_expr, <<"value", " ", "from">>, <<>>)),
                     Element(variable_name, FALSE,
                         get_object_locator(objs,
                             Strip(Replace(value_expr, <<"value", " ", "from">>, <<>>)),
                             <<>>)))
            ELSE Done(Put(ctx, variable_name, Unquote(value_expr)), <<>>)
        Expr(value_expr, variable_name) ==
            Store(value_expr, variable_name,
                  Contains(value_expr, <<"text", " ", "from">>),
                  Contains(value_expr, <<"value", " ", "from">>))
        Parsed(m) ==
            IF ~m.found THEN Raise("ValueError", ctx, <<>>)
            ELSE Expr(Strip(m.before), Strip(m.after))
    IN  Parsed(MatchKeywords(desc, <<"as">>))

store_value(desc, ctx, objs, o) == Caught(store_value_body(desc, ctx, objs, o))

\* hover, check and uncheck: look the object up, make the one call
on_object_body(api, desc, ctx, objs, o) ==
    LET On(found) ==
            IF found.exc # "none" THEN Raise(found.exc, ctx, <<>>)
            ELSE FinalCall(ctx, <<>>, api, found.value, <<>>, 0, o[1])
    IN  Looked(desc, On(get_object_locator(objs, desc, <<>>)))

perform_hover(desc, ctx, objs, o) == Caught(on_object_body("hover", desc, ctx, objs, o))

perform_check(desc, ctx, objs, o) == Caught(on_object_body("check", desc, ctx, objs, o))

perform_uncheck(desc, ctx, objs, o) == Caught(on_object_body("uncheck", desc, ctx, objs, o))

perform_keypress_body(desc, ctx, objs, o) ==
    LET Press(key, found) ==
            IF found.exc # "none" THEN Raise(found.exc, ctx, <<>>)
            ELSE FinalCall(ctx, <<>>, "press", found.value, key, 0, o[1])
        \* parts = desc.split(" in "): parts[0] and parts[1]
        Named(key, object_name) ==
            Looked(object_name, Press(key, get_object_locator(objs, object_name, <<>>)))
        Parts(at, rest, next) ==
            Named(Strip(Slice(desc, 1, at - 1)),
                  Strip(IF next = 0 THEN rest ELSE Slice(rest, 1, next - 1)))
        Rest(at, rest) == Parts(at, rest, Find(rest, <<" ", "in", " ">>, 1))
        In(at) ==
            IF at # 0 THEN Rest(at, Slice(desc, at + 3, Len(desc)))
            ELSE IF Lower(desc) = <<"enter">>
            THEN FinalCall(ctx, <<>>, "keyboard.press", <<>>, <<"Enter">>, 0, o[1])
            ELSE FinalCall(ctx, <<>>, "keyboard.press", <<>>, desc, 0, o[1])
    IN  In(Find(desc, <<" ", "in", " ">>, 1))

perform_keypress(desc, ctx, objs, o) == Caught(perform_keypress_body(desc, ctx, objs, o))

perform_refresh(ctx, o) == Caught(FinalCall(ctx, <<>>, "reload", <<>>, <<>>, 0, o[1]))

execute_javascript(desc, ctx, o) ==
    Caught(FinalCall(ctx, <<>>, "evaluate", <<>>, Unquote(desc), 0, o[1]))

-----------------------------------------------------------------------------
(* enhanced_page_actions.py: execute_action                                *)

\* "${RANDOM}"
RandomMarker == Ref(<<"RANDOM">>)

\* index of the first quote of s at or after i, 0 when there is none
RECURSIVE NextQuote(_, _)
NextQuote(s, i) ==
    IF i > Len(s) THEN 0
    ELSE IF s[i] = "\"" THEN i
    ELSE NextQuote(s, i + 1)

\* re.search(r'with\s+"([^"]*)"', s): the leftmost match from i on
RECURSIVE QuotedAfterWith(_, _)
QuotedAfterWith(s, i) ==
    LET Closed(open, close) ==
            IF /\ s[i] = "with"
               /\ SpacesAt(s, i + 1) > 0
               /\ open <= Len(s)
               /\ s[open] = "\""
               /\ close # 0
            THEN [found |-> TRUE, group |-> Slice(s, open + 1, close - 1)]
            ELSE QuotedAfterWith(s, i + 1)
        Opened(open) == Closed(open, NextQuote(s, open + 1))
    IN  IF i > Len(s) THEN [found |-> FALSE, group |-> <<>>]
        ELSE Opened(i + 1 + SpacesAt(s, i + 1))

\* for var_name, var_value in context.items():
\*     if "${var_name}" in step: step = step.replace("${var_name}", str(var_value))
RECURSIVE ExpandContext(_, _, _)
ExpandContext(step, ctx, i) ==
    IF i > Len(ctx) THEN step
    ELSE ExpandContext(
             IF Contains(step, Ref(ctx[i].key))
             THEN Replace(step, Ref(ctx[i].key), ctx[i].value)
             ELSE step,
             ctx, i + 1)

Verbs ==
    { <<"click">>, <<"fill">>, <<"select">>, <<"verify">>, <<"wait">>,
      <<"navigate">>, <<"screenshot">>, <<"store">>, <<"hover">>, <<"press">>,
      <<"check">>, <<"uncheck">>, <<"refresh">>, <<"execute">>, <<"find">> }

\* the if / elif chain on the verb
Dispatch(action, remaining, ctx, objs, t, o) ==
    CASE action = <<"click">> -> perform_click(remaining, ctx, objs, o)
      [] action = <<"fill">> -> perform_fill(remaining, ctx, objs, o)
      [] action = <<"select">> -> perform_select(remaining, ctx, objs, o)
      [] action = <<"verify">> -> perform_verification(remaining, ctx, objs, o)
      [] action = <<"wait">> -> perform_wait(remaining, ctx, objs, o)
      [] action = <<"navigate">> -> perform_navigate(remaining, ctx, objs, o)
      [] action = <<"screenshot">> -> take_screenshot(remaining, ctx, t, o)
      [] action = <<"store">> -> store_value(remaining, ctx, objs, o)
      [] action = <<"hover">> -> perform_hover(remaining, ctx, objs, o)
      [] action = <<"press">> -> perform_keypress(remaining, ctx, objs, o)
      [] action = <<"check">> -> perform_check(remaining, ctx, objs, o)
      [] action = <<"uncheck">> -> perform_uncheck(remaining, ctx, objs, o)
      [] action = <<"refresh">> -> perform_refresh(ctx, o)
      [] action = <<"execute">> -> execute_javascript(remaining, ctx, o)
      [] action = <<"find">> -> find_record(remaining, ctx, objs, o)
      [] OTHER -> Raise("ValueError", ctx, <<>>)

\* the try block of execute_action; t is int(time.time())
execute_action_body(action_step, context, objs, t, o) ==
    LET Outcome(exc, ret, ctx, calls, expanded, verb, handler_exc) ==
            [exc |-> exc, ret |-> ret, ctx |-> ctx, calls |-> calls,
             expanded |-> expanded, verb |-> verb, handler_exc |-> handler_exc,
             lookups |-> <<>>]
        Handled(expanded, action, handled) ==
            [exc |-> handled.exc, ret |-> handled.ret, ctx |-> handled.ctx,
             calls |-> handled.calls, expanded |-> expanded, verb |-> action,
             handler_exc |-> handled.exc, lookups |-> handled.lookups]
        Verb(bound, expanded, action, remaining) ==
            IF action \notin Verbs
            THEN Outcome("ValueError", FALSE, bound, <<>>, expanded, action, "none")
            ELSE Handled(expanded, action, Dispatch(action, remaining, bound, objs, t, o))
        Parts(bound, expanded, action_parts) ==
            IF action_parts = <<>>
            THEN Outcome("ValueError", FALSE, bound, <<>>, expanded, <<>>, "none")
            ELSE Verb(bound, expanded, Lower(action_parts[1]),
                      IF Len(action_parts) > 1 THEN action_parts[2] ELSE <<>>)
        Expanded(bound, expanded) ==
            Parts(bound, expanded, SplitFirst(Strip(expanded)))
        Bound(stamped, bound) == Expanded(bound, ExpandContext(stamped, bound, 1))
        \* action_step.split("Field")[0].strip().split()[-1]
        Named(stamped, name_match, words) ==
            IF words = <<>>
            THEN Outcome("IndexError", FALSE, context, <<>>, stamped, <<>>, "none")
            ELSE Bound(stamped,
                       Put(context,
                           <<"current_">> \o Lower(words[Len(words)]) \o <<"_name">>,
                           name_match.group))
        Matched(stamped, name_match) ==
            IF Contains(stamped, <<"Name", " ", "Field", " ", "with">>) /\ name_match.found
            THEN Named(stamped, name_match,
                       Split(Strip(BeforeFirst(stamped, <<"Field">>))))
            ELSE Bound(stamped, context)
        Stamped(stamped) == Matched(stamped, QuotedAfterWith(stamped, 1))
    IN  IF Contains(action_step, RandomMarker)
        THEN Stamped(Replace(action_step, RandomMarker, Decimal(t)))
        ELSE Bound(action_step, context)

\* execute_action without its except clause
execute_action_NoCatch(action_step, context, objs, t, o) ==
    execute_action_body(action_step, context, objs, t, o)

\* try: ... except Exception: return False
execute_action(action_step, context, objs, t, o) ==
    LET Except(r) == IF r.exc = "none" THEN r ELSE [r EXCEPT !.exc = "none", !.ret = FALSE]
    IN  Except(execute_action_body(action_step, context, objs, t, o))

-----------------------------------------------------------------------------
(* The repository as a state machine                                       *)

NoCall ==
    [op |-> "none", name |-> <<>>, params |-> <<>>, locator |-> <<>>,
     ret |-> NoLocator, removed |-> FALSE, held |-> <<>>, shared |-> FALSE]

NoStep ==
    [active |-> FALSE, step |-> <<>>, t |-> 0, before |-> <<>>, exc |-> "none",
     ret |-> FALSE, calls |-> <<>>, expanded |-> <<>>, verb |-> <<>>,
     handler_exc |-> "none", lookups |-> <<>>]

\* no result yet
NoResult == [status |-> "none", failed_steps |-> <<>>, error |-> "none"]

\* GenerateReport(results, ...).generate_report(): the counts, the summary of
\* the JSON report with its guarded success rate, json.dump, then the HTML
\* text, whose success rate divides by total without a guard
generate_report(results) ==
    LET Count(status) ==
            Cardinality({ i \in 1..Len(results) : results[i].status = status })
        \* (passed/total)*100 in hundredths, rounded as :.2f rounds
        Hundredths(passed, total) == ((20000 * passed) + total) \div (2 * total)
        Fixed2(h) ==
            Decimal(h \div 100)
                \o <<".", DigitAtom[((h \div 10) % 10) + 1], DigitAtom[(h % 10) + 1], "%">>
        Written(total, passed) ==
            [called |-> TRUE,
             exc |-> IF total = 0 THEN "ZeroDivisionError" ELSE "none",
             json |-> TRUE,
             html |-> total # 0,
             total |-> total, passed |-> passed,
             failed |-> Count("FAILED"), errors |-> Count("ERROR"),
             success_rate |-> IF total > 0 THEN Fixed2(Hundredths(passed, total))
                              ELSE <<"0", "%">>]
    IN  Written(Len(results), Count("PASSED"))

\* the executor between two units of work
Idle ==
    [pc |-> "idle", mode |-> "none", in_file |-> 0, enabled |-> 0, cases_left |-> 0,
     session |-> "none", repo_found |-> "none", test_case |-> <<>>,
     step_num |-> 0, test_passed |-> TRUE, failed_steps |-> <<>>,
     dispatched |-> <<>>, returned |-> <<>>, shots |-> <<>>,
     before |-> <<>>, after |-> <<>>, expanded |-> <<>>, peer |-> <<>>,
     clock |-> 0, start_time |-> -1, steps_done_at |-> -1, execution_time |-> -1,
     thrown |-> "none", thrown_at |-> "none", result |-> NoResult,
     results |-> <<>>, cleanup_exc |-> "none", raised |-> "none", returns |-> <<>>,
     report |-> [called |-> FALSE, exc |-> "none", json |-> FALSE, html |-> FALSE,
                 total |-> 0, passed |-> 0, failed |-> 0, errors |-> 0,
                 success_rate |-> <<>>]]

\* repository files a run may start from
Repositories ==
    { d \in UNION { [1..n -> ObjectEntries] : n \in 0..MaxObjects } : DistinctKeys(d) }

RepoFiles == { MissingFile } \cup { Dump(d) : d \in Repositories }

InitRepo ==
    \E f \in RepoFiles :
        /\ load_repository(f).exc = "none"
        /\ objects = load_repository(f).objects
        /\ file = load_repository(f).file
        /\ last = NoCall
        /\ context_vars = <<>>
        /\ call = NoStep
        /\ generated = <<>>
        /\ exec = Idle

\* one caller: a call is made when the previous one has returned
GetObjectLocator(name, params) ==
    /\ last.op = "none"
    /\ last' = [NoCall EXCEPT !.op = "get", !.name = name, !.params = params,
                              !.ret = get_object_locator(objects, name, params)]
    /\ UNCHANGED <<objects, file>>
    /\ UNCHANGED <<stepVars, exec>>

AddObject(name, locator) ==
    /\ last.op = "none"
    /\ HasKey(objects, name) \/ Len(objects) < MaxObjects
    /\ LET r == add_object(objects, file, name, locator)
       IN  /\ objects' = r.objects
           /\ file' = r.file
           /\ last' = [NoCall EXCEPT !.op = "add", !.name = name, !.locator = locator]
           /\ UNCHANGED <<stepVars, exec>>

RemoveObject(name) ==
    LET r == remove_object(objects, file, name)
    IN  /\ last.op = "none"
        /\ objects' = r.objects
        /\ file' = r.file
        /\ last' = [NoCall EXCEPT !.op = "remove", !.name = name, !.removed = r.ret]
        /\ UNCHANGED <<stepVars, exec>>

GetAllObjects ==
    /\ last.op = "none"
    /\ last' = [NoCall EXCEPT !.op = "get_all",
                              !.held = get_all_objects(objects).map,
                              !.shared = get_all_objects(objects).shared]
    /\ UNCHANGED <<objects, file>>
    /\ UNCHANGED <<stepVars, exec>>

\* the caller writes into the map that get_all_objects returned: the
\* repository changes with it exactly when the two are one object
MutateReturned(name, locator) ==
    /\ last.op = "get_all"
    /\ HasKey(last.held, name) \/ Len(last.held) < MaxObjects
    /\ last' = [last EXCEPT !.op = "mutate", !.name = name, !.locator = locator,
                            !.held = Put(@, name, locator)]
    /\ objects' = IF last.shared THEN Put(objects, name, locator) ELSE objects
    /\ UNCHANGED file
    /\ UNCHANGED <<stepVars, exec>>

\* the caller takes the outcome of the call
ReturnToCaller ==
    /\ last.op # "none"
    /\ last' = NoCall
    /\ UNCHANGED <<objects, file>>
    /\ UNCHANGED <<stepVars, exec>>

NextRepo ==
    \/ \E name \in Names, params \in ParamSets : GetObjectLocator(name, params)
    \/ \E name \in Names, locator \in Locators : AddObject(name, locator)
    \/ \E name \in Names : RemoveObject(name)
    \/ GetAllObjects
    \/ \E name \in Names, locator \in Locators : MutateReturned(name, locator)
    \/ ReturnToCaller

SpecRepo == InitRepo /\ [][NextRepo]_vars

-----------------------------------------------------------------------------
(* The step interpreter as a state machine: one test case after another,   *)
(* each with its own context, steps interpreted one at a time              *)

\* the words of a step joined by single blanks
RECURSIVE Sentence(_)
Sentence(texts) ==
    IF texts = <<>> THEN <<>>
    ELSE IF Len(texts) = 1 THEN texts[1]
    ELSE texts[1] \o <<" ">> \o Sentence(Tail(texts))

Quoted(text) == <<"\"">> \o text \o <<"\"">>

SaveButton == <<"Save", " ", "Button">>
OpportunityNameField == <<"Opportunity", " ", "Name", " ", "Field">>
CurrentOpportunityName == <<"current_", "opportunity", "_name">>

\* fill Opportunity Name Field with "Acme${RANDOM}"
FillNameStep ==
    Sentence(<< <<"fill">>, OpportunityNameField, <<"with">>,
                Quoted(<<"Acme">> \o RandomMarker) >>)

\* find Opportunity with name ${current_opportunity_name}
FindNameStep ==
    Sentence(<< <<"find">>, <<"Opportunity">>, <<"with">>, <<"name">>,
                Ref(CurrentOpportunityName) >>)

\* find Opportunity with name ${current_name_name}
FindBoundNameStep ==
    Sentence(<< <<"find">>, <<"Opportunity">>, <<"with">>, <<"name">>,
                Ref(<<"current_", "name", "_name">>) >>)

Steps ==
    { FillNameStep,
      FindNameStep,
      FindBoundNameStep,
      Sentence(<< <<"Field">>, <<"Name">>, <<"Field">>, <<"with">>,
                  Quoted(RandomMarker) >>),
      Sentence(<< <<"find">>, <<"Opportunity">> >>),
      Sentence(<< <<"find">>, <<"Account">>, <<"with">>, <<"name">>,
                  Quoted(<<"Acme">>) >>),
      Sentence(<< <<"store">>, Quoted(Ref(<<"b">>)), <<"as">>, <<"a">> >>),
      Sentence(<< <<"store">>, <<"x">>, <<"as">>, <<"b">> >>),
      Sentence(<< <<"store">>, <<"text">>, <<"from">>, SaveButton, <<"as">>, <<"v">> >>),
      Sentence(<< <<"store">>, <<"value">>, <<"from">>, <<"Username">>, <<"as">>, <<"v">> >>),
      Sentence(<< <<"store">>, <<"x">> >>),
      Sentence(<< <<"click">>, Ref(<<"a">>) >>),
      Sentence(<< <<"click">>, SaveButton >>),
      Sentence(<< <<"Click">>, SaveButton >>),
      <<"click">>,
      <<"hover">>,
      <<"check">>,
      Sentence(<< <<"click">>, <<"Row">>, <<"with">>, <<"id", "=", "4", "2">> >>),
      Sentence(<< <<"click">>, <<"Row">>, <<"with">>, <<"id", "=", "b">> >>),
      <<>>,
      <<" ", " ">>,
      Sentence(<< <<"dance">>, SaveButton >>),
      Sentence(<< <<"fill">>, <<"Username">>, <<"with">>, Quoted(<<"alice">>) >>),
      Sentence(<< <<"fill">>, <<"Username">> >>),
      Sentence(<< <<"fill">>, <<"Field">>, <<"Name">>, <<"Field">>, <<"with">>,
                  Quoted(RandomMarker) >>),
      Sentence(<< <<"select">>, Quoted(<<"Gold">>), <<"from">>, <<"Tier">> >>),
      Sentence(<< <<"verify">>, SaveButton, <<"is">>, <<"enabled">> >>),
      Sentence(<< <<"verify">>, Quoted(<<"Welcome">>), <<"is">>, <<"visible">> >>),
      Sentence(<< <<"verify">>, SaveButton, <<"is">>, <<"shiny">> >>),
      Sentence(<< <<"verify">>, SaveButton, <<"is">>, <<"containing">>,
                  Quoted(<<"Acme">>) >>),
      Sentence(<< <<"wait">>, <<"3">>, <<"seconds">> >>),
      Sentence(<< <<"wait">>, <<"few">>, <<"seconds">> >>),
      Sentence(<< <<"wait">>, <<"for">>, SaveButton, <<"to">>, <<"be">>, <<"visible">> >>),
      Sentence(<< <<"navigate">>, <<"/", "lightning">> >>),
      Sentence(<< <<"screenshot">>, <<"after">>, <<"save">> >>),
      Sentence(<< <<"hover">>, SaveButton >>),
      Sentence(<< <<"press">>, <<"Enter">> >>),
      Sentence(<< <<"press">>, <<"Tab">>, <<"in">>, <<"Username">> >>),
      Sentence(<< <<"check">>, SaveButton >>),
      Sentence(<< <<"uncheck">>, SaveButton >>),
      <<"refresh">>,
      Sentence(<< <<"execute">>, Quoted(<<"window.scrollTo(0,0)">>) >>) }

\* the repository the steps run against
StepRepository ==
    << [key |-> SaveButton, value |-> <<"#save">>],
       [key |-> <<"Username">>, value |-> <<"#user-input">>],
       [key |-> OpportunityNameField, value |-> <<"#opp-name">>],
       [key |-> <<"Row">>, value |-> <<"//tr[@id='">> \o Placeholder(<<"id">>) \o <<"']">>],
       [key |-> <<"Tier">>, value |-> <<"#tier">>] >>

\* int(time.time()) when a step is interpreted
Times == { 17, 18 }

\* the most calls one handler makes on the page (perform_select)
PageCallsAtMost == 5

\* the outcomes a call on the page may have: the calls that return an answer
\* (a boolean, a text) may also return the other answer
OutcomesOf(api) ==
    IF api \in { "is_enabled", "is_checked", "inner_text", "input_value", "url" }
    THEN Outcomes
    ELSE { "ok", "Timeout", "Error" }

\* the outcomes of the calls made so far, every later call succeeding
Padded(outs) == [i \in 1..PageCallsAtMost |-> IF i <= Len(outs) THEN outs[i] ELSE "ok"]

\* every way execute_action(step, ctx) may go, over all behaviours of the
\* page: outs are the outcomes of the calls made so far
RECURSIVE Behaviours(_, _, _, _, _)
Behaviours(step, ctx, objs, t, outs) ==
    LET Next(r) ==
            IF Len(r.calls) <= Len(outs) THEN { r }
            ELSE UNION { Behaviours(step, ctx, objs, t, Append(outs, out)) :
                           out \in OutcomesOf(r.calls[Len(outs) + 1].api) }
    IN  Next(execute_action(step, ctx, objs, t, Padded(outs)))

InitStep ==
    /\ objects \in { StepRepository, <<>> }
    /\ file = Dump(objects)
    /\ last = NoCall
    /\ context_vars = <<>>
    /\ call = NoStep
    /\ generated = <<>>
    /\ exec = Idle

\* page_actions.execute_action(step, context_vars)
ExecuteAction(step, t) ==
    /\ ~call.active
    /\ \E r \in Behaviours(step, context_vars, objects, t, <<>>) :
              /\ Len(r.ctx) <= MaxContext
              /\ context_vars' = r.ctx
              /\ call' = [active |-> TRUE, step |-> step, t |-> t, before |-> context_vars,
                          exc |-> r.exc, ret |-> r.ret, calls |-> r.calls,
                          expanded |-> r.expanded, verb |-> r.verb,
                          handler_exc |-> r.handler_exc, lookups |-> r.lookups]
    /\ generated' = IF step = FillNameStep THEN <<"Acme">> \o Decimal(t) ELSE generated
    /\ UNCHANGED <<repoVars, exec>>

\* the executor takes the boolean
TakeResult ==
    /\ call.active
    /\ call' = NoStep
    /\ UNCHANGED <<context_vars, generated>>
    /\ UNCHANGED <<repoVars, exec>>

\* the next test case starts with context_vars = {}
NewTestCase ==
    /\ ~call.active
    /\ context_vars # <<>>
    /\ context_vars' = <<>>
    /\ generated' = <<>>
    /\ UNCHANGED call
    /\ UNCHANGED <<repoVars, exec>>

NextStep ==
    \/ \E step \in Steps, t \in Times : ExecuteAction(step, t)
    \/ TakeResult
    \/ NewTestCase

SpecStep == InitStep /\ [][NextStep]_vars

-----------------------------------------------------------------------------
(* The executor as a state machine: one worker running units of work.  In  *)
(* per-test-case mode a unit is one call of execute_test_case(file,        *)
(* test_case), with a session of its own; in per-file mode a unit is one   *)
(* call of execute_excel_file(file): the enabled test cases of the file,   *)
(* one after the other in one session.                                     *)

Modes == { "per_test_case", "per_file" }

DanceStep == Sentence(<< <<"dance">>, SaveButton >>)

\* the steps test cases are made of
ExecSteps == { FillNameStep, DanceStep, FindBoundNameStep }

\* test_case["steps"]: the reader keeps a test case only when it has steps
TestCases == UNION { [1..n -> ExecSteps] : n \in 1..MaxSteps }

\* failed_steps.append(f"Step {step_num}: {step}")
FailedStep(step_num, step) == [step_num |-> step_num, step |-> step]

\* the result of a test case whose after-screenshot was taken, lines 131-149
\* with FAILED written as PASSED
TestCaseResult_AlwaysPassed(test_passed, failed_steps) ==
    [status |-> "PASSED", failed_steps |-> <<>>, error |-> "none"]

\* if test_passed: result = {... "PASSED"} else: result = {... "FAILED",
\* "failed_steps": failed_steps}
TestCaseResult(test_passed, failed_steps) ==
    IF test_passed
    THEN [status |-> "PASSED", failed_steps |-> <<>>, error |-> "none"]
    ELSE [status |-> "FAILED", failed_steps |-> failed_steps, error |-> "none"]

\* except Exception as e: result = {... "status": "ERROR", "error": str(e)}
ErrorResult(exc) == [status |-> "ERROR", failed_steps |-> <<>>, error |-> exc]

\* the loop without its break: the steps after a failed one are run too
AfterFailure_NoBreak(step_num, n) == IF step_num < n THEN "loop" ELSE "after"

\* where the loop goes after the failure screenshot: break
AfterFailure(step_num, n) == "after"

\* where the loop goes after a step that returned True
AfterSuccess(step_num, n) == IF step_num < n THEN "loop" ELSE "after"

\* ExcelReader.__init__(self, file_path, logger): both parameters are
\* required; given are the arguments of the call
ExcelReaderInit(given) ==
    IF { "file_path", "logger" } \subseteq given THEN "ok" ELSE "TypeError"

\* excel_reader = ExcelReader(test_case_file), as the runners call it
ReaderCalled == ExcelReaderInit({ "file_path" })

\* ExcelReader(...) followed by read_test_cases(): a reader that was
\* constructed validates the file, then reads it
LoadOutcomes(constructed) ==
    IF constructed # "ok" THEN { constructed }
    ELSE { "ok", "FileNotFoundError", "ValueError" }

\* the time from start_time to the end of the last step that was run
ExecutionTime_UpToLastStep(start_time, now, steps_done_at) ==
    steps_done_at - start_time

\* execution_time = time.time() - start_time, now being the instant at which
\* the statement is reached
ExecutionTime(start_time, now, steps_done_at) == now - start_time

\* the context of a test case is carried over from what ran before
FreshContext_Carried == context_vars

\* context_vars = {}
FreshContext == <<>>

\* the error of the cleanup leaves the unit
LoggedOnly_Reraised(exc) == exc

\* except Exception as cleanup_error: the error is logged, nothing is raised
LoggedOnly(exc) == "none"

\* the file stops at the first test case that did not pass
NextCase_StopAtFailure(cases_left, status) ==
    IF cases_left > 0 /\ status = "PASSED" THEN "start" ELSE "cleanup"

\* for test_case in enabled_test_cases: the next one whatever the status of
\* this one, the end of the unit after the last
NextCase(cases_left, status) == IF cases_left > 0 THEN "start" ELSE "cleanup"

\* an exception in execute_test_case once the session is set up: the except
\* clause of per-test-case mode, the except clause around the call in
\* per-file mode
Escaped(exc, shots) ==
    [exec EXCEPT !.pc = "returned", !.result = ErrorResult(exc), !.shots = shots,
                 !.thrown = exc, !.thrown_at = "test_case"]

\* an exception before the first test case: in per-test-case mode the except
\* clause builds the ERROR result, in per-file mode the except clause of the
\* file logs it
SetupEscaped(exc, at) ==
    IF exec.mode = "per_test_case"
    THEN [exec EXCEPT !.pc = "cleanup", !.result = ErrorResult(exc),
                      !.thrown = exc, !.thrown_at = at]
    ELSE [exec EXCEPT !.pc = "cleanup", !.thrown = exc, !.thrown_at = at]

\* the repository file a run finds
ExecRepoFiles == { MissingFile, InvalidFile, Dump(StepRepository) }

InitExec ==
    /\ objects = <<>>
    /\ file \in ExecRepoFiles
    /\ last = NoCall
    /\ context_vars = <<>>
    /\ call = NoStep
    /\ generated = <<>>
    /\ exec = Idle

\* a worker takes a unit of work: a file that holds n enabled test cases, or
\* one enabled test case
StartUnit(mode, n) ==
    /\ exec.pc \in { "idle", "done", "reported" }
    /\ mode = "per_test_case" => n = 1
    /\ exec' = IF mode = "per_file"
               THEN [Idle EXCEPT !.pc = "load", !.mode = mode, !.in_file = n]
               ELSE [Idle EXCEPT !.pc = "browser", !.mode = mode, !.in_file = n,
                                 !.enabled = n, !.cases_left = n]
    /\ UNCHANGED <<repoVars, stepVars>>

\* per-file mode: ExcelReader(test_case_file), read_test_cases(), the filter
\* on "enabled"
LoadTestCases(out) ==
    /\ exec.pc = "load"
    /\ exec' = IF out # "ok" THEN SetupEscaped(out, "load")
               ELSE IF exec.in_file = 0 THEN [exec EXCEPT !.pc = "cleanup"]
               ELSE [exec EXCEPT !.pc = "browser", !.enabled = exec.in_file,
                                 !.cases_left = exec.in_file]
    /\ UNCHANGED <<repoVars, stepVars>>

\* playwright, browser, context, page = setup_browser()
SetupBrowser(out) ==
    /\ exec.pc = "browser"
    /\ exec' = IF Fails(out) THEN SetupEscaped(ExcOf(out), "browser")
               ELSE [exec EXCEPT !.pc = "login", !.session = "open"]
    /\ UNCHANGED <<repoVars, stepVars>>

\* login_to_salesforce(page)
Login(out) ==
    /\ exec.pc = "login"
    /\ exec' = IF Fails(out) THEN SetupEscaped(ExcOf(out), "login")
               ELSE [exec EXCEPT !.pc = "repo"]
    /\ UNCHANGED <<repoVars, stepVars>>

\* object_repo = ObjectRepository("./object_repository/salesforce_objects.json")
OpenRepository ==
    LET Opened(found, r) ==
            /\ objects' = r.objects
            /\ file' = r.file
            /\ exec' = IF r.exc # "none"
                       THEN [SetupEscaped(r.exc, "repo") EXCEPT !.repo_found = found]
                       ELSE [exec EXCEPT !.pc = "start", !.repo_found = found]
    IN  /\ exec.pc = "repo"
        /\ Opened(IF ~file.exists THEN "missing"
                  ELSE IF ~file.valid THEN "invalid"
                  ELSE "valid",
                  load_repository(file))
        /\ UNCHANGED last
        /\ UNCHANGED stepVars

\* the head of execute_test_case: context_vars = {}, the before screenshot,
\* test_passed = True, failed_steps = []
BeforeScreenshot(test_case, out) ==
    /\ exec.pc = "start"
    /\ exec.cases_left > 0
    /\ context_vars' = FreshContext
    /\ LET begun == [exec EXCEPT !.cases_left = @ - 1, !.test_case = test_case,
                                 !.step_num = 0, !.test_passed = TRUE,
                                 !.failed_steps = <<>>, !.dispatched = <<>>,
                                 !.returned = <<>>, !.result = NoResult,
                                 !.before = <<>>, !.after = <<>>, !.expanded = <<>>,
                                 !.clock = 1, !.start_time = -1, !.steps_done_at = -1,
                                 !.execution_time = -1,
                                 !.shots = <<[kind |-> "before", out |-> out, at |-> 0]>>]
       IN  exec' = IF Fails(out)
                   THEN [begun EXCEPT !.pc = "returned", !.result = ErrorResult(ExcOf(out)),
                                      !.thrown = ExcOf(out), !.thrown_at = "test_case"]
                   ELSE [begun EXCEPT !.pc = "loop", !.start_time = begun.clock,
                                      !.steps_done_at = begun.clock]
    /\ UNCHANGED <<repoVars, call, generated>>

\* one turn of the loop: result = page_actions.execute_action(step, context_vars)
DispatchStep(t) ==
    /\ exec.pc = "loop"
    /\ LET step_num == exec.step_num + 1
           step == exec.test_case[step_num]
           n == Len(exec.test_case)
       IN  \E r \in Behaviours(step, context_vars, objects, t, <<>>) :
               /\ context_vars' = r.ctx
               /\ exec' = IF r.ret
                          THEN [exec EXCEPT !.step_num = step_num,
                                            !.dispatched = Append(@, step_num),
                                            !.returned = Append(@, TRUE),
                                            !.before = context_vars,
                                            !.after = r.ctx,
                                            !.expanded = r.expanded,
                                            !.clock = @ + 1,
                                            !.steps_done_at = exec.clock + 1,
                                            !.pc = AfterSuccess(step_num, n)]
                          ELSE [exec EXCEPT !.step_num = step_num,
                                            !.dispatched = Append(@, step_num),
                                            !.returned = Append(@, FALSE),
                                            !.before = context_vars,
                                            !.after = r.ctx,
                                            !.expanded = r.expanded,
                                            !.clock = @ + 1,
                                            !.steps_done_at = exec.clock + 1,
                                            !.test_passed = FALSE,
                                            !.failed_steps =
                                                Append(@, FailedStep(step_num, step)),
                                            !.pc = "failure"]
    /\ UNCHANGED <<repoVars, call, generated>>

\* page.screenshot(path=failure_screenshot); break
FailureScreenshot(out) ==
    /\ exec.pc = "failure"
    /\ LET shots == Append(exec.shots, [kind |-> "failure", out |-> out,
                                        at |-> Len(exec.dispatched)])
       IN  exec' = IF Fails(out)
                   THEN [Escaped(ExcOf(out), shots) EXCEPT !.clock = @ + 1]
                   ELSE [exec EXCEPT !.shots = shots, !.clock = @ + 1,
                                     !.pc = AfterFailure(exec.step_num,
                                                         Len(exec.test_case))]
    /\ UNCHANGED <<repoVars, stepVars>>

\* the result is built without the screenshot after the test
AfterScreenshot_NotTaken(out) ==
    /\ exec.pc = "after"
    /\ out = "ok"
    /\ exec' = [exec EXCEPT !.pc = "returned",
                            !.result = TestCaseResult(exec.test_passed, exec.failed_steps)]
    /\ UNCHANGED <<repoVars, stepVars>>

\* the tail of execute_test_case: the after screenshot, then the result
AfterScreenshot(out) ==
    /\ exec.pc = "after"
    /\ LET shots == Append(exec.shots, [kind |-> "after", out |-> out,
                                        at |-> Len(exec.dispatched)])
       IN  exec' = IF Fails(out)
                   THEN [Escaped(ExcOf(out), shots) EXCEPT !.clock = @ + 1]
                   ELSE [exec EXCEPT !.shots = shots, !.pc = "returned",
                                     !.clock = @ + 1,
                                     !.execution_time =
                                         ExecutionTime(exec.start_time, exec.clock + 1,
                                                       exec.steps_done_at),
                                     !.result = TestCaseResult(exec.test_passed,
                                                               exec.failed_steps)]
    /\ UNCHANGED <<repoVars, stepVars>>

\* the result is handed over: results.append(result), then the next enabled
\* test case of the file, or the end of the unit
ReturnResult ==
    /\ exec.pc = "returned"
    /\ exec' = [exec EXCEPT !.results = Append(@, exec.result),
                            !.pc = NextCase(exec.cases_left, exec.result.status)]
    /\ UNCHANGED <<repoVars, stepVars>>

\* a cleanup whose failure makes the unit return nothing
Cleanup_FailureDropsResults(out, at) ==
    LET Closed(closing) ==
            exec' = [exec EXCEPT
                        !.pc = "done",
                        !.session = IF closing = "none" \/ at = 3 THEN "closed" ELSE @,
                        !.cleanup_exc = closing,
                        !.raised = LoggedOnly(closing),
                        !.returns = IF closing # "none" THEN <<>>
                                    ELSE IF exec.mode = "per_test_case"
                                    THEN <<exec.result>>
                                    ELSE exec.results]
    IN  /\ exec.pc = "cleanup"
        /\ IF exec.session = "none" THEN out = "ok" /\ at = 1
           ELSE ~Fails(out) => at = 3
        /\ Closed(IF exec.session = "none" THEN "UnboundLocalError"
                  ELSE IF Fails(out) THEN ExcOf(out)
                  ELSE "none")
        /\ UNCHANGED <<repoVars, stepVars>>

\* finally: try: context.close(); browser.close(); playwright.stop()
\* except Exception: log.  The names are unbound when setup_browser() never
\* returned; a close call that raises skips the ones after it, and the
\* browser stays open unless it is playwright.stop() that raised.  Then
\* comes the return of the unit.  out is the outcome of the close call
\* number at, the ones before it returned
Cleanup(out, at) ==
    LET Closed(closing) ==
            exec' = [exec EXCEPT
                        !.pc = "done",
                        !.session = IF closing = "none" \/ at = 3 THEN "closed" ELSE @,
                        !.cleanup_exc = closing,
                        !.raised = LoggedOnly(closing),
                        !.returns = IF LoggedOnly(closing) # "none" THEN <<>>
                                    ELSE IF exec.mode = "per_test_case"
                                    THEN <<exec.result>>
                                    ELSE exec.results]
    IN  /\ exec.pc = "cleanup"
        /\ IF exec.session = "none" THEN out = "ok" /\ at = 1
           ELSE ~Fails(out) => at = 3
        /\ IF exec.session = "none"
           THEN exec' = [exec EXCEPT
                            !.pc = "done",
                            !.cleanup_exc = "UnboundLocalError",
                            !.raised = LoggedOnly("UnboundLocalError"),
                            !.returns =
                                IF LoggedOnly("UnboundLocalError") # "none" THEN <<>>
                                ELSE IF exec.mode = "per_test_case"
                                THEN <<exec.result>>
                                ELSE exec.results]
           ELSE Closed(IF Fails(out) THEN ExcOf(out) ELSE "none")
        /\ UNCHANGED <<repoVars, stepVars>>

\* the report on what the unit returned: the per-file runner constructs
\* GenerateReport and calls generate_report(), the per-test-case runner calls
\* GenerateReport.generate_report(results, results_dir, timestamp) on the
\* class, three arguments for the one parameter self
GenerateReport ==
    /\ exec.pc = "done"
    /\ exec' = [exec EXCEPT
                    !.pc = "reported",
                    !.report = IF exec.mode = "per_test_case"
                               THEN [Idle.report EXCEPT !.called = TRUE,
                                                        !.exc = "TypeError"]
                               ELSE generate_report(exec.returns)]
    /\ UNCHANGED <<repoVars, stepVars>>

\* a step of a test case that another worker runs at the same time, with
\* its own page and its own context
PeerStep(t) ==
    /\ exec.pc = "loop"
    /\ exec.peer = <<>>
    /\ \E r \in Behaviours(FillNameStep, exec.peer, objects, t, <<>>) :
           /\ r.ctx # exec.peer
           /\ exec' = [exec EXCEPT !.peer = r.ctx]
    /\ UNCHANGED <<repoVars, stepVars>>

\* what a unit does after its test cases are loaded
RunUnit ==
    \/ \E out \in { "ok", "Error" } : SetupBrowser(out)
    \/ \E out \in { "ok", "Timeout", "Error" } : Login(out)
    \/ OpenRepository
    \/ \E test_case \in TestCases, out \in OutcomesOf("screenshot") :
           BeforeScreenshot(test_case, out)
    \/ \E t \in Times : DispatchStep(t)
    \/ \E out \in OutcomesOf("screenshot") : FailureScreenshot(out)
    \/ \E out \in OutcomesOf("screenshot") : AfterScreenshot(out)
    \/ ReturnResult
    \/ \E out \in { "ok", "Error" }, at \in 1..3 : Cleanup(out, at)
    \/ GenerateReport

\* the runners as they are: the reader is constructed without its logger
NextExec ==
    \/ \E mode \in Modes, n \in 0..MaxCases : StartUnit(mode, n)
    \/ \E out \in LoadOutcomes(ReaderCalled) : LoadTestCases(out)
    \/ RunUnit

SpecExec == InitExec /\ [][NextExec]_vars

\* the units as they run once a reader is constructed (with its logger) and
\* hands over the test cases of the file, next to a second worker
NextLoaded ==
    \/ \E mode \in Modes, n \in 0..MaxCases : StartUnit(mode, n)
    \/ \E out \in LoadOutcomes(ExcelReaderInit({ "file_path", "logger" })) :
           LoadTestCases(out)
    \/ RunUnit
    \/ \E t \in Times : PeerStep(t)

SpecLoaded == InitExec /\ [][NextLoaded]_vars

-----------------------------------------------------------------------------
(* Properties of the repository                                            *)

Min(S) == CHOOSE m \in S : \A n \in S : m <= n

ExactKeys(objs, name) == { i \in 1..Len(objs) : objs[i].key = name }

EqualIgnoringCase(objs, name) ==
    { i \in 1..Len(objs) : Lower(objs[i].key) = Lower(name) }

\* keys that contain name or are contained in name, compared as written
SubstringKeys(objs, name) ==
    { i \in 1..Len(objs) :
        Contains(objs[i].key, name) \/ Contains(name, objs[i].key) }

\* keys that contain name or are contained in name, compared ignoring case
SubstringKeysIgnoringCase(objs, name) ==
    { i \in 1..Len(objs) :
        \/ Contains(Lower(objs[i].key), Lower(name))
        \/ Contains(Lower(name), Lower(objs[i].key)) }

\* the entry the three tiers select, 0 for none
Tiered(exact, case, substring) ==
    IF exact # {} THEN Min(exact)
    ELSE IF case # {} THEN Min(case)
    ELSE IF substring # {} THEN Min(substring)
    ELSE 0

ReturnsEntry(i) ==
    IF i = 0
    THEN last.ret.exc = "ValueError"
    ELSE /\ last.ret.exc = "none"
         /\ last.ret.matched = objects[i].key
         /\ last.params = <<>> => last.ret.value = objects[i].value

\* C1 as stated: the lookup returns the entry chosen by exact match, else the
\* first key equal ignoring case, else the first key that contains the name
\* or is contained in it (compared as written).
C1_TiersAsStated ==
    last.op = "get" =>
        ReturnsEntry(Tiered(ExactKeys(objects, last.name),
                            EqualIgnoringCase(objects, last.name),
                            SubstringKeys(objects, last.name)))

\* C1 amended: the lookup returns the entry chosen by exact match, else the
\* first key equal ignoring case, else the first key that, ignoring case,
\* contains the name or is contained in it; an earlier tier wins over a later
\* one whatever the iteration order.
C1_TierOrder ==
    last.op = "get" =>
        ReturnsEntry(Tiered(ExactKeys(objects, last.name),
                            EqualIgnoringCase(objects, last.name),
                            SubstringKeysIgnoringCase(objects, last.name)))

\* a case-insensitive hit on the second entry wins over a substring hit on
\* the first entry
C1_Witness ==
    /\ last.op = "get"
    /\ Len(objects) = 2
    /\ ExactKeys(objects, last.name) = {}
    /\ EqualIgnoringCase(objects, last.name) = {2}
    /\ 1 \in SubstringKeysIgnoringCase(objects, last.name)
    /\ last.ret.matched = objects[2].key

\* C2 as stated: a name with no exact key, no key equal ignoring case and no
\* key containing it or contained in it (compared as written) raises
\* ValueError.
C2_NotFoundAsStated ==
    ( /\ last.op = "get"
      /\ ExactKeys(objects, last.name) = {}
      /\ EqualIgnoringCase(objects, last.name) = {}
      /\ SubstringKeys(objects, last.name) = {} )
    => last.ret.exc = "ValueError"

\* C2 amended: a name with no exact key, no key equal ignoring case and no
\* key that, ignoring case, contains it or is contained in it raises
\* ValueError and yields no locator.
C2_NotFound ==
    ( /\ last.op = "get"
      /\ ExactKeys(objects, last.name) = {}
      /\ EqualIgnoringCase(objects, last.name) = {}
      /\ SubstringKeysIgnoringCase(objects, last.name) = {} )
    => /\ last.ret.exc = "ValueError"
       /\ last.ret.value = <<>>
       /\ last.ret.matched = <<>>

C2_Witness ==
    /\ last.op = "get"
    /\ Len(objects) = 2
    /\ SubstringKeysIgnoringCase(objects, last.name) = {}
    /\ last.ret.exc = "ValueError"

\* every placeholder of a key of params replaced by str(params[key]) in one
\* pass over the template; all other text is copied
RECURSIVE AllPlaceholdersReplaced(_, _, _)
AllPlaceholdersReplaced(template, params, i) ==
    IF i > Len(template) THEN <<>>
    ELSE LET here == { j \in 1..Len(params) :
                         MatchAt(template, Placeholder(params[j].key), i) }
         IN  IF here # {}
             THEN Str(params[Min(here)].value)
                  \o AllPlaceholdersReplaced(template, params,
                         i + Len(Placeholder(params[Min(here)].key)))
             ELSE <<template[i]>> \o AllPlaceholdersReplaced(template, params, i + 1)

TemplateOfLast == objects[IndexOf(objects, last.ret.matched)].value

\* C3 as stated: the returned locator is the template with every {key} of
\* params replaced by str(params[key]), other placeholders left as they are,
\* and the call returns normally.
C3_SubstitutionAsStated ==
    (last.op = "get" /\ last.ret.tier # "none") =>
        /\ last.ret.exc = "none"
        /\ last.ret.value = AllPlaceholdersReplaced(TemplateOfLast, last.params, 1)

\* no value's text holds the placeholder of a parameter that comes after it
NoValueNamesLaterParam(params) ==
    \A i, j \in 1..Len(params) :
        i < j => ~Contains(Str(params[i].value), Placeholder(params[j].key))

\* C3 where it holds: parameters are substituted one after another in the
\* order of params, so when no value's text holds the placeholder of a later
\* parameter the returned locator is the template with every {key} of params
\* replaced by str(params[key]) and every other placeholder left as it is;
\* the call returns normally in every case.
C3_SubstitutionOfPlainValues ==
    (last.op = "get" /\ last.ret.tier # "none") =>
        /\ last.ret.exc = "none"
        /\ NoValueNamesLaterParam(last.params) =>
               last.ret.value = AllPlaceholdersReplaced(TemplateOfLast, last.params, 1)

\* {id}{k}{id} with params {id: "{k}", k: 7}: the value of id, itself put in
\* place of {id}, is read as a placeholder and replaced by the value of k
C3_Witness ==
    /\ last.op = "get"
    /\ last.params = << [key |-> <<"id">>, value |-> TextVal(Placeholder(<<"k">>))],
                        [key |-> <<"k">>, value |-> IntVal(7)] >>
    /\ last.ret.exc = "none"
    /\ TemplateOfLast =
           Placeholder(<<"id">>) \o Placeholder(<<"k">>) \o Placeholder(<<"id">>)
    /\ last.ret.value = <<"7", "7", "7">>

\* C4: the file holds the same map as memory after every completed call, and
\* after add_object(name, locator) a lookup of name returns locator.
C4_WriteThrough ==
    /\ file = Dump(objects)
    /\ last.op = "add" =>
           /\ get_object_locator(objects, last.name, <<>>).exc = "none"
           /\ get_object_locator(objects, last.name, <<>>).value = last.locator

\* an add that replaced the locator of an existing first entry
C4_Witness ==
    /\ last.op = "add"
    /\ Len(objects) = 2
    /\ objects[1].key = last.name
    /\ objects[1].value = last.locator
    /\ file.content = objects

\* a step of the repository that is a lookup, a removal of a name that is not
\* an exact key, a get_all_objects, or a write of the caller into the map that
\* get_all_objects returned
ReadOnlyCall ==
    \/ last'.op \in { "get", "get_all", "mutate" }
    \/ last'.op = "remove" /\ ~HasKey(objects, last'.name)

\* C29: a lookup (successful or failing, with or without params) and a
\* removal of a name that is not an exact key change neither the map in
\* memory nor the file, such a removal returns False, and a caller writing
\* into the map returned by get_all_objects does not change the repository.
C29_ReadsLeaveRepository ==
    [][ /\ ReadOnlyCall => objects' = objects /\ file' = file
        /\ (last'.op = "remove" /\ ~HasKey(objects, last'.name))
               => ~last'.removed ]_vars

\* the caller has put a name into the map it was given that the repository,
\* still as its file holds it, does not have
C29_Witness ==
    /\ last.op = "mutate"
    /\ HasKey(last.held, last.name)
    /\ ~HasKey(objects, last.name)
    /\ objects # <<>>
    /\ file = Dump(objects)

-----------------------------------------------------------------------------
(* Properties of the step interpreter                                      *)

\* C5 as stated: once fill Opportunity Name Field with "<text>${RANDOM}" has
\* been interpreted in a test case, a later step that holds
\* ${current_opportunity_name} is expanded to the generated value.
C5_GeneratedNameAsStated ==
    ( /\ call.active
      /\ generated # <<>>
      /\ Contains(call.step, Ref(CurrentOpportunityName)) )
    => call.expanded = Replace(call.step, Ref(CurrentOpportunityName), generated)

\* the find step interpreted after the fill step: the reference is still in
\* the text, the value is bound under current_name_name
C5_Witness ==
    /\ call.active
    /\ call.step = FindNameStep
    /\ generated # <<>>
    /\ call.expanded = FindNameStep
    /\ HasKey(call.before, <<"current_", "name", "_name">>)
    /\ ~HasKey(call.before, CurrentOpportunityName)

\* the step with every ${name} of a name bound in ctx replaced by its value
\* in one pass; all other text is copied
RECURSIVE AllReferencesReplaced(_, _, _)
AllReferencesReplaced(step, ctx, i) ==
    IF i > Len(step) THEN <<>>
    ELSE LET here == { j \in 1..Len(ctx) : MatchAt(step, Ref(ctx[j].key), i) }
         IN  IF here # {}
             THEN ctx[Min(here)].value
                  \o AllReferencesReplaced(step, ctx, i + Len(Ref(ctx[Min(here)].key)))
             ELSE <<step[i]>> \o AllReferencesReplaced(step, ctx, i + 1)

\* text holds ${name} for some name bound in ctx
HoldsBoundReference(text, ctx) ==
    \E j \in 1..Len(ctx) : Contains(text, Ref(ctx[j].key))

\* names a step may refer to
ReferenceNames ==
    { <<"a">>, <<"b">>, <<"v">>, CurrentOpportunityName, <<"current_", "name", "_name">> }

\* C6 as stated: the expanded step is the step with every ${name} of a bound
\* name replaced by the value of the name and all other text unchanged.
C6_ExpansionAsStated ==
    (call.active /\ ~Contains(call.step, RandomMarker)) =>
        call.expanded = AllReferencesReplaced(call.step, call.before, 1)

\* C6 where it holds: names are replaced one after another in the order they
\* were bound, each in the text the earlier replacements left, so the outcome
\* is the step with every ${name} of a bound name replaced by its value
\* whenever that text holds no ${name} of a bound name (a value that refers
\* to a name bound later is expanded again).  A ${name} of an unbound name
\* stays in the text and is no error.
C6_ExpansionOfPlainValues ==
    (call.active /\ ~Contains(call.step, RandomMarker)) =>
        LET once == AllReferencesReplaced(call.step, call.before, 1)
        IN  /\ ~HoldsBoundReference(once, call.before) => call.expanded = once
            /\ \A n \in ReferenceNames :
                   (Contains(call.step, Ref(n)) /\ ~HasKey(call.before, n))
                       => Contains(call.expanded, Ref(n))
            /\ call.exc = "none"

\* click ${a} with a bound to "${b}" and b bound after it to "x": the text
\* put in place of ${a} is read as a reference and replaced by the value of b
C6_Witness ==
    /\ call.active
    /\ call.step = Sentence(<< <<"click">>, Ref(<<"a">>) >>)
    /\ call.before = << [key |-> <<"a">>, value |-> Ref(<<"b">>)],
                        [key |-> <<"b">>, value |-> <<"x">>] >>
    /\ call.expanded = Sentence(<< <<"click">>, <<"x">> >>)

\* the step is empty after trimming or its first word is no known verb
NoKnownVerb(step) ==
    \/ Strip(step) = <<>>
    \/ Lower(SplitFirst(Strip(step))[1]) \notin Verbs

\* C7 as stated: an empty step or an unknown verb leaves the interpreter as
\* a ValueError.
C7_ValueErrorAsStated ==
    (call.active /\ NoKnownVerb(call.expanded)) => call.exc = "ValueError"

\* C7 amended: an empty step or an unknown verb makes execute_action return
\* False without a call on the page; the ValueError is caught inside
\* execute_action, and no exception leaves it for any step.
C7_UnknownVerbReturnsFalse ==
    call.active =>
        /\ call.exc = "none"
        /\ NoKnownVerb(call.expanded) =>
               /\ call.ret = FALSE
               /\ call.calls = <<>>
               /\ call.verb \notin Verbs

\* dance Save Button: False, nothing done on the page
C7_Witness ==
    /\ call.active
    /\ call.step = Sentence(<< <<"dance">>, SaveButton >>)
    /\ call.verb = <<"dance">>
    /\ call.ret = FALSE
    /\ call.exc = "none"

\* C8: whatever the page and the repository do, execute_action and the
\* handler it dispatches to return a boolean and raise nothing; a call on the
\* page that raises and is not retried, and a step that fails before any
\* call, give False.
C8_AlwaysBoolean ==
    call.active =>
        /\ call.exc = "none"
        /\ call.handler_exc = "none"
        /\ call.ret \in BOOLEAN
        /\ (call.calls # <<>> /\ Fails(call.calls[Len(call.calls)].out))
               => call.ret = FALSE
        /\ call.ret => call.verb \in Verbs

\* a select whose native call, click by text and click by xpath all raise:
\* False after five calls on the page
C8_Witness ==
    /\ call.active
    /\ call.verb = <<"select">>
    /\ Len(call.calls) = PageCallsAtMost
    /\ \A i \in { 1, 4, 5 } : Fails(call.calls[i].out)
    /\ call.ret = FALSE
    /\ call.exc = "none"

-----------------------------------------------------------------------------
(* Properties of the executor                                              *)

\* some dispatched step returned False
SomeStepFailed == \E j \in 1..Len(exec.returned) : ~exec.returned[j]

\* the entry of the last dispatched step
LastStepEntry ==
    FailedStep(Len(exec.dispatched), exec.test_case[Len(exec.dispatched)])

\* C9 as stated: a test case with a step that returned failure ends with
\* status FAILED and exactly one failed-steps entry, the one of that step.
C9_FailFastAsStated ==
    (exec.pc = "returned" /\ SomeStepFailed) =>
        /\ exec.result.status = "FAILED"
        /\ exec.result.failed_steps = <<LastStepEntry>>

\* C9 amended: the steps are dispatched in order, the first step that
\* returns failure is the last one dispatched and is the one entry of the
\* failed-steps list; the result is FAILED with that list unless the failure
\* screenshot or the closing screenshot raises, and is ERROR in that case.
C9_FailFast ==
    /\ exec.dispatched = [j \in 1..exec.step_num |-> j]
    /\ Len(exec.returned) = Len(exec.dispatched)
    /\ Len(exec.dispatched) <= Len(exec.test_case)
    /\ \A j \in 1..(Len(exec.returned) - 1) : exec.returned[j]
    /\ SomeStepFailed =>
           /\ ~exec.test_passed
           /\ exec.failed_steps = <<LastStepEntry>>
    /\ (exec.pc = "returned" /\ SomeStepFailed) =>
           IF Fails(exec.shots[Len(exec.shots)].out)
           THEN exec.result.status = "ERROR"
           ELSE /\ exec.result.status = "FAILED"
                /\ exec.result.failed_steps = <<LastStepEntry>>

\* steps [S1(pass), S2(fail), S3]: FAILED, one failed step, S3 not dispatched
C9_Witness ==
    /\ exec.pc = "returned"
    /\ Len(exec.test_case) = 3
    /\ exec.dispatched = <<1, 2>>
    /\ exec.returned = <<TRUE, FALSE>>
    /\ exec.result.status = "FAILED"
    /\ exec.result.failed_steps = <<FailedStep(2, exec.test_case[2])>>

\* no screenshot of the test case raised
NoException == \A j \in 1..Len(exec.shots) : ~Fails(exec.shots[j].out)

\* C10: a test case that raised no exception is PASSED exactly when every
\* step was dispatched and returned success, FAILED exactly when some step
\* returned failure; no result is FAILED without a failed step in it.
C10_StatusFollowsSteps ==
    /\ exec.result.status = "FAILED" => exec.result.failed_steps # <<>>
    /\ (exec.pc = "returned" /\ NoException) =>
           /\ exec.result.status \in { "PASSED", "FAILED" }
           /\ exec.result.status = "PASSED" <=>
                  /\ Len(exec.dispatched) = Len(exec.test_case)
                  /\ \A j \in 1..Len(exec.returned) : exec.returned[j]
           /\ exec.result.status = "FAILED" <=> SomeStepFailed

\* three steps, all dispatched, all successful: PASSED
C10_Witness ==
    /\ exec.pc = "returned"
    /\ NoException
    /\ Len(exec.test_case) = 3
    /\ exec.dispatched = <<1, 2, 3>>
    /\ exec.returned = <<TRUE, TRUE, TRUE>>
    /\ exec.result.status = "PASSED"

\* the unit is a call of execute_test_case in per-test-case mode that came
\* to its end
TestCaseUnitDone == exec.pc = "done" /\ exec.mode = "per_test_case"

\* C11: in per-test-case mode an exception raised while the session is set
\* up, while signing in, while the repository is opened or in the step loop
\* yields the result ERROR carrying the message of the exception; the call
\* raises nothing and returns exactly one result, also when the cleanup
\* itself fails because the session was never created; no result is ERROR
\* without an exception.
C11_ErrorResultNeverRaises ==
    /\ (exec.mode = "per_test_case" /\ exec.thrown # "none") =>
           /\ exec.pc \in { "returned", "cleanup", "done", "reported" }
           /\ exec.result = ErrorResult(exec.thrown)
    /\ (exec.mode = "per_test_case" /\ exec.result.status = "ERROR") =>
           exec.thrown # "none"
    /\ TestCaseUnitDone =>
           /\ exec.raised = "none"
           /\ exec.returns = <<exec.result>>
           /\ exec.result # NoResult
           /\ exec.session = "none" => exec.cleanup_exc = "UnboundLocalError"

\* setup_browser() raised, the cleanup failed on the unbound session names,
\* and the call still returned the ERROR result with the message
C11_Witness ==
    /\ TestCaseUnitDone
    /\ exec.thrown_at = "browser"
    /\ exec.session = "none"
    /\ exec.cleanup_exc = "UnboundLocalError"
    /\ exec.raised = "none"
    /\ exec.returns = <<ErrorResult("Error")>>

\* the unit is a call of execute_excel_file that came to its end
FileUnitDone == exec.pc = "done" /\ exec.mode = "per_file"

\* some entry of the returned results has the status
Returned(status) == \E j \in 1..Len(exec.returns) : exec.returns[j].status = status

\* C12 as stated: in per-file mode an exception raised while the file is
\* loaded, the session is set up or the user is signed in does not leave
\* execute_excel_file and is recorded as ERROR in the results it returns.
C12_SetupErrorRecordedAsStated ==
    (FileUnitDone /\ exec.thrown_at \in { "load", "browser", "login" }) =>
        /\ exec.raised = "none"
        /\ Returned("ERROR")

\* the reader raised while the file was loaded: nothing was raised out of
\* execute_excel_file, and it returned no entry at all
C12_Witness ==
    /\ FileUnitDone
    /\ exec.thrown_at = "load"
    /\ exec.thrown = "TypeError"
    /\ exec.raised = "none"
    /\ exec.returns = <<>>

\* C13 as stated: when the repository file is missing, the test case of the
\* unit gets the status ERROR and nothing is raised out of the unit.
C13_MissingFileIsErrorAsStated ==
    (TestCaseUnitDone /\ exec.repo_found = "missing") =>
        /\ exec.raised = "none"
        /\ exec.returns = <<exec.result>>
        /\ exec.result.status = "ERROR"

\* C13 amended: a missing repository file is no failure.  Opening the
\* repository creates the file, empty, and yields an empty repository; the
\* test case is run and its status follows its steps (ERROR only when a
\* screenshot raises).  The setup failure is a file that is no valid JSON:
\* the ValueError of the opening makes the result ERROR, no step is run.
\* In both cases nothing is raised out of the unit.
C13_MissingFileIsCreated ==
    /\ exec.repo_found = "missing" =>
           /\ file = Dump(<<>>)
           /\ objects = <<>>
           /\ exec.thrown_at # "repo"
           /\ exec.pc \in { "cleanup", "done" } =>
                  /\ exec.shots # <<>>
                  /\ NoException => exec.result.status \in { "PASSED", "FAILED" }
    /\ exec.repo_found = "invalid" =>
           /\ file = InvalidFile
           /\ exec.thrown_at = "repo"
           /\ exec.dispatched = <<>>
           /\ exec.mode = "per_test_case" => exec.result = ErrorResult("ValueError")
    /\ (exec.pc = "done" /\ exec.repo_found \in { "missing", "invalid" }) =>
           exec.raised = "none"

\* the file was missing, the test case ran against the empty repository and
\* PASSED
C13_Witness ==
    /\ TestCaseUnitDone
    /\ exec.repo_found = "missing"
    /\ file = Dump(<<>>)
    /\ exec.dispatched # <<>>
    /\ exec.returns = <<exec.result>>
    /\ exec.result.status = "PASSED"

\* a screenshot of the kind was captured: the call returned
Captured(kind) ==
    \E j \in 1..Len(exec.shots) :
        exec.shots[j].kind = kind /\ ~Fails(exec.shots[j].out)

\* the screenshot before the test is the first one and was captured with no
\* step dispatched yet
BeforeComesFirst ==
    /\ exec.shots # <<>> =>
           exec.shots[1] = [kind |-> "before", out |-> exec.shots[1].out, at |-> 0]
    /\ exec.dispatched # <<>> => ~Fails(exec.shots[1].out)
    /\ \A j \in 2..Len(exec.shots) : exec.shots[j].kind # "before"

\* C14 as stated: the before screenshot is captured before the first step is
\* dispatched, and whatever the status of the result (PASSED, FAILED or
\* ERROR) a closing screenshot has been captured when the result is produced.
C14_ClosingScreenshotAsStated ==
    /\ BeforeComesFirst
    /\ exec.result.status \in { "PASSED", "FAILED", "ERROR" } => Captured("after")

\* C14 amended: the before screenshot is captured before the first step is
\* dispatched; a result PASSED or FAILED is produced right after the closing
\* screenshot was captured, which is taken after the last dispatched step;
\* a result ERROR is produced without a closing screenshot.
C14_ClosingScreenshot ==
    /\ BeforeComesFirst
    /\ exec.result.status \in { "PASSED", "FAILED" } =>
           /\ Len(exec.shots) >= 2
           /\ exec.shots[Len(exec.shots)] =
                  [kind |-> "after", out |-> "ok", at |-> Len(exec.dispatched)]
           /\ \A j \in 1..(Len(exec.shots) - 1) :
                  /\ exec.shots[j].kind # "after"
                  /\ ~Fails(exec.shots[j].out)
    /\ exec.result.status = "ERROR" => ~Captured("after")

\* a FAILED test case: before screenshot, failure screenshot at the failed
\* step, closing screenshot
C14_Witness ==
    /\ exec.pc = "returned"
    /\ exec.result.status = "FAILED"
    /\ exec.dispatched = <<1, 2>>
    /\ exec.shots = << [kind |-> "before", out |-> "ok", at |-> 0],
                       [kind |-> "failure", out |-> "ok", at |-> 2],
                       [kind |-> "after", out |-> "ok", at |-> 2] >>

\* the unit is a call of execute_excel_file that entered the loop over the
\* enabled test cases of its file
InFileLoop ==
    /\ exec.mode = "per_file"
    /\ exec.enabled > 0
    /\ exec.repo_found = "valid" \/ exec.repo_found = "missing"

\* a test case of the file is being executed, its result not yet appended
InTestCase == exec.pc \in { "loop", "failure", "after", "returned" }

NameBoundAt(t) ==
    Put(<<>>, <<"current_", "name", "_name">>, <<"Acme">> \o Decimal(t))

\* C16: a test case starts with an empty context, and between its steps the
\* context is what its own last step left: the first step is handed the
\* empty context and is expanded with nothing, every binding of the context
\* was made by a step of the test case itself, and the context of a test
\* case running on another worker holds what its own step bound.  This holds
\* for the test cases that one worker runs one after the other in one
\* session as well.
C16_OwnContext ==
    /\ (InTestCase /\ exec.step_num = 0) => context_vars = <<>>
    /\ (InTestCase /\ exec.step_num >= 1) => context_vars = exec.after
    /\ (InTestCase /\ exec.step_num = 1) =>
           /\ exec.before = <<>>
           /\ ~Contains(exec.test_case[1], RandomMarker) =>
                  exec.expanded = exec.test_case[1]
    /\ (InTestCase /\ context_vars # <<>>) =>
           \E j \in 1..exec.step_num : exec.test_case[j] = FillNameStep
    /\ exec.peer # <<>> => \E t \in Times : exec.peer = NameBoundAt(t)

\* the first test case of the file bound the generated name (and FAILED at
\* that step), a test case on another worker bound it too; the next test
\* case of the file refers to the name in its first step: the step is handed
\* the empty context and the reference is left as it is
C16_Witness ==
    /\ exec.mode = "per_file"
    /\ InTestCase
    /\ exec.results = << [status |-> "FAILED",
                          failed_steps |-> <<FailedStep(1, FillNameStep)>>,
                          error |-> "none"] >>
    /\ exec.peer # <<>>
    /\ exec.step_num = 1
    /\ exec.test_case[1] = FindBoundNameStep
    /\ exec.before = <<>>
    /\ exec.expanded = FindBoundNameStep
    /\ context_vars = <<>>

C23_SessionClosedUnlessCloseRaises ==
    /\ exec.session = "open" => exec.pc \notin { "idle", "load", "browser" }
    /\ exec.pc = "done" =>
           /\ exec.cleanup_exc = "none" => exec.session = "closed"
           /\ exec.cleanup_exc = "UnboundLocalError" => exec.session = "none"
           /\ exec.session = "open" => exec.cleanup_exc = "Error"

C24_OneEntryPerTestCaseAsStated ==
    FileUnitDone =>
        /\ exec.raised = "none"
        /\ Len(exec.returns) = exec.in_file
        /\ \A j \in 1..Len(exec.returns) :
               exec.returns[j].status \in { "PASSED", "FAILED", "ERROR" }

\* a file of two enabled test cases: the reader raised TypeError, the unit
\* returned no entry
C24_Witness ==
    /\ FileUnitDone
    /\ exec.in_file = 2
    /\ exec.thrown = "TypeError"
    /\ exec.thrown_at = "load"
    /\ exec.session = "none"
    /\ exec.returns = <<>>

\* the test case ended with a result that carries an execution time
TimedResult == exec.pc = "returned" /\ exec.result.status \in { "PASSED", "FAILED" }

\* C25 as stated: the execution time of a test case runs from the instant
\* after the before screenshot to the instant at which the last executed
\* step completed; it is the time of the steps alone.
C25_StepsOnlyAsStated ==
    TimedResult =>
        /\ exec.start_time = 1
        /\ exec.execution_time = exec.steps_done_at - exec.start_time
        /\ exec.execution_time = Len(exec.dispatched)

\* C25 amended: the start instant is taken after the before screenshot and
\* before the first step; the end instant is taken after the closing
\* screenshot.  The execution time of a PASSED or FAILED test case covers its
\* steps, the failure screenshot of a failed step and the closing
\* screenshot, and not the before screenshot, the setup of the session or
\* its cleanup; an ERROR result carries no execution time.
C25_ExecutionTimeSpan ==
    /\ TimedResult =>
           /\ exec.start_time = 1
           /\ exec.execution_time = exec.clock - exec.start_time
           /\ exec.execution_time = Len(exec.dispatched) + (Len(exec.shots) - 1)
           /\ exec.execution_time > exec.steps_done_at - exec.start_time
    /\ exec.result.status = "ERROR" => exec.execution_time = -1
    /\ exec.pc = "loop" => exec.start_time = 1 /\ exec.steps_done_at = exec.clock

\* a FAILED test case of two steps, each operation taking one unit of time:
\* the steps end at 3, the failure and the closing screenshot at 5, and the
\* execution time is 4
C25_Witness ==
    /\ exec.pc = "returned"
    /\ exec.result.status = "FAILED"
    /\ exec.dispatched = <<1, 2>>
    /\ Len(exec.shots) = 3
    /\ exec.start_time = 1
    /\ exec.steps_done_at = 3
    /\ exec.clock = 5
    /\ exec.execution_time = 4

\* what the unit hands back when nothing is raised out of it
ResultsOfUnit == IF exec.mode = "per_test_case" THEN <<exec.result>> ELSE exec.results

\* C26: a unit of work ends through its cleanup, whatever its outcome: with
\* a session, the close calls are made; without one (setup failure, or no
\* enabled test case in the file) the attempt fails on the unbound names.
\* A failure of the cleanup is not raised out of the unit, and the unit
\* returns the results it had before the cleanup.
C26_CleanupAlwaysAttempted ==
    /\ exec.pc \in { "done", "reported" } =>
           /\ exec.raised = "none"
           /\ exec.returns = ResultsOfUnit
           /\ \/ exec.session = "none" /\ exec.cleanup_exc = "UnboundLocalError"
              \/ exec.session = "open" /\ exec.cleanup_exc = "Error"
              \/ exec.session = "closed" /\ exec.cleanup_exc \in { "none", "Error" }
    /\ exec.pc \notin { "done", "reported", "idle" } =>
           exec.cleanup_exc = "none" /\ exec.returns = <<>>
    /\ (exec.pc = "cleanup" /\ exec.mode = "per_file") =>
           \/ exec.thrown_at \in { "load", "browser", "login", "repo" }
           \/ exec.in_file = 0
           \/ Len(exec.results) = exec.enabled

\* a file without an enabled test case: the early return goes through the
\* cleanup, which fails on the unbound session names; nothing is raised and
\* the empty results are returned
C26_Witness ==
    /\ FileUnitDone
    /\ exec.in_file = 0
    /\ exec.thrown = "none"
    /\ exec.session = "none"
    /\ exec.cleanup_exc = "UnboundLocalError"
    /\ exec.raised = "none"
    /\ exec.returns = <<>>

\* C30 as stated: on an empty results collection report generation completes
\* without raising and produces the JSON and the HTML report with total 0 and
\* a success rate of 0%; every summary written has
\* total = passed + failed + errors.
C30_EmptyReportAsStated ==
    exec.pc = "reported" =>
        /\ exec.returns = <<>> =>
               /\ exec.report.exc = "none"
               /\ exec.report.json
               /\ exec.report.html
               /\ exec.report.total = 0
               /\ exec.report.success_rate = <<"0", "%">>
        /\ exec.report.json =>
               exec.report.total
                   = exec.report.passed + exec.report.failed + exec.report.errors

\* what generate_report does when called as the per-file runner calls it:
\* the JSON report is written, its counts add up and an empty collection
\* gives total 0 and 0%, and the HTML report is written exactly when there is
\* a result
C30_ReportAsCoded ==
    (exec.pc = "reported" /\ exec.mode = "per_file") =>
        /\ exec.report.json
        /\ exec.report.total = Len(exec.returns)
        /\ exec.report.total
               = exec.report.passed + exec.report.failed + exec.report.errors
        /\ exec.returns = <<>> =>
               /\ exec.report.total = 0
               /\ exec.report.success_rate = <<"0", "%">>
        /\ exec.report.html <=> exec.returns # <<>>
        /\ exec.report.exc = IF exec.returns = <<>> THEN "ZeroDivisionError"
                             ELSE "none"

\* a per-file unit returned nothing and the report on it wrote the JSON
\* report and raised before the HTML report
C30_Witness ==
    /\ exec.pc = "reported"
    /\ exec.mode = "per_file"
    /\ exec.returns = <<>>
    /\ exec.report.called
    /\ exec.report.json
    /\ ~exec.report.html
    /\ exec.report.exc = "ZeroDivisionError"

-----------------------------------------------------------------------------
(* Properties of the verb handlers                                         *)

\* the text after the verb of a step
RemainingOf(expanded) ==
    LET Rest(parts) == IF Len(parts) > 1 THEN parts[2] ELSE <<>>
    IN  Rest(SplitFirst(Strip(expanded)))

\* text without one pair of surrounding quotes of the given kinds
PairStripped(text, quotes) ==
    IF Len(text) >= 2 /\ text[1] = text[Len(text)] /\ text[1] \in quotes
    THEN Slice(text, 2, Len(text) - 1)
    ELSE text

\* the name is resolved by no tier of the repository
NotInRepository(name) == get_object_locator(objects, name, <<>>).exc = "ValueError"

\* the check c, made on the element, shows that the condition holds
ConditionMet(condition, c) ==
    CASE condition \in { <<"visible">>, <<"available">> } ->
             c.api = "wait_for" /\ c.arg = <<"visible">> /\ ~Fails(c.out)
      [] condition \in { <<"invisible">>, <<"not", " ", "visible">> } ->
             c.api = "wait_for" /\ c.arg = <<"hidden">> /\ ~Fails(c.out)
      [] condition = <<"enabled">> -> c.api = "is_enabled" /\ c.out = "ok"
      [] condition = <<"disabled">> -> c.api = "is_enabled" /\ c.out = "no"
      [] condition = <<"checked">> -> c.api = "is_checked" /\ c.out = "ok"
      [] condition = <<"unchecked">> -> c.api = "is_checked" /\ c.out = "no"
      [] condition # <<>> /\ Head(condition) = "containing" ->
             /\ c.api = "inner_text"
             /\ ~Fails(c.out)
             /\ Contains(ElementText(c.out),
                         PairStripped(Strip(Tail(condition)), { "\"" }))
      [] OTHER -> FALSE

\* the last verify step went as stated for the phrase and condition of m
VerifiedByText(m) ==
    LET On(phrase, condition, target) ==
            /\ call.lookups = <<phrase>>
            /\ call.calls # <<>>
            /\ call.calls[1].api = "locator"
            /\ \A i \in 1..Len(call.calls) : call.calls[i].target = target
            /\ Len(call.calls) <= 2
            /\ call.ret = ( /\ Len(call.calls) = 2
                            /\ ~Fails(call.calls[1].out)
                            /\ ConditionMet(condition, call.calls[2]) )
    IN  (m.found /\ NotInRepository(Strip(m.before))) =>
            On(Strip(m.before), Strip(m.after),
               <<"text=">> \o PairStripped(Strip(m.before), { "\"" }))

\* C17: a verify step whose phrase no tier of the repository resolves makes
\* its check on the element text=<phrase>, the double quotes around the
\* phrase removed, and returns True exactly when that check shows that the
\* condition holds; a condition that is none of the known ones gives False.
C17_TextFallback ==
    (call.active /\ call.verb = <<"verify">>) =>
        VerifiedByText(MatchKeywords(RemainingOf(call.expanded), <<"is">>))

\* verify Save Button is enabled on an empty repository: is_enabled is asked
\* of text=Save Button and answers yes
C17_Witness ==
    /\ call.active
    /\ objects = <<>>
    /\ call.step = Sentence(<< <<"verify">>, SaveButton, <<"is">>, <<"enabled">> >>)
    /\ Len(call.calls) = 2
    /\ call.calls[1].target = <<"text=">> \o SaveButton
    /\ call.calls[2].api = "is_enabled"
    /\ call.calls[2].target = <<"text=">> \o SaveButton
    /\ call.calls[2].out = "ok"
    /\ call.ret = TRUE

\* the last fill step went as stated; at is where the first " with " of desc
\* begins, 0 when there is none
FilledAsStated(desc, at) ==
    LET Calls(locator, value) ==
            /\ call.calls # <<>>
            /\ call.calls[1] = PageCall("fill", locator, <<>>, 0, call.calls[1].out)
            /\ Len(call.calls) = IF Fails(call.calls[1].out) THEN 1 ELSE 2
            /\ Len(call.calls) = 2 =>
                   call.calls[2] = PageCall("fill", locator, value, 0, call.calls[2].out)
            /\ call.ret = (Len(call.calls) = 2 /\ ~Fails(call.calls[2].out))
        Field(field, value, found) ==
            IF found.exc # "none"
            THEN call.calls = <<>> /\ call.ret = FALSE
            ELSE call.lookups = <<field>> /\ Calls(found.value, value)
        Resolved(field, value) ==
            Field(field, value, get_object_locator(objects, field, <<>>))
    IN  IF at = 0
        THEN call.calls = <<>> /\ call.lookups = <<>> /\ call.ret = FALSE
        ELSE Resolved(Strip(Slice(desc, 1, at - 1)),
                      PairStripped(Strip(Slice(desc, at + 3, Len(desc))), { "\"", "'" }))

\* C18: fill <field> with <value> looks <field>, the text before the first
\* " with ", up in the repository, then fills the locator with the empty
\* string and then with <value> without its pair of surrounding quotes; the
\* second fill is made when the first did not raise and the step is True when
\* neither raised.  Without " with ", or with a field the repository does not
\* resolve, nothing is filled and the step is False.
C18_FillClearsThenSets ==
    LET Desc(desc) == FilledAsStated(desc, Find(desc, <<" ", "with", " ">>, 1))
    IN  (call.active /\ call.verb = <<"fill">>) => Desc(RemainingOf(call.expanded))

\* fill Username with "alice": fill(#user-input, ""), fill(#user-input, alice)
C18_Witness ==
    /\ call.active
    /\ call.step = Sentence(<< <<"fill">>, <<"Username">>, <<"with">>, Quoted(<<"alice">>) >>)
    /\ call.lookups = << <<"Username">> >>
    /\ call.calls = << PageCall("fill", <<"#user-input">>, <<>>, 0, "ok"),
                       PageCall("fill", <<"#user-input">>, <<"alice">>, 0, "ok") >>
    /\ call.ret = TRUE

\* desc is "<N> seconds" with N a decimal integer
TimedWait(desc) ==
    /\ Len(desc) >= 3
    /\ desc[Len(desc)] = "seconds"
    /\ desc[Len(desc) - 1] = " "
    /\ \A i \in 1..(Len(desc) - 2) : IsDigit(desc[i])

\* C19: wait <N> seconds makes the one call wait_for_timeout(N * 1000), is
\* True unless that call raises, and looks nothing up; a wait step that
\* looks an object up is of the form for <element> to be <condition>.
C19_TimedWaitLooksNothingUp ==
    LET Desc(desc) ==
            /\ TimedWait(desc) =>
                   /\ call.lookups = <<>>
                   /\ Len(call.calls) = 1
                   /\ call.calls[1] =
                          PageCall("wait_for_timeout", <<>>, <<>>,
                                   ParseDigits(Slice(desc, 1, Len(desc) - 2), 0) * 1000,
                                   call.calls[1].out)
                   /\ call.ret = ~Fails(call.calls[1].out)
            /\ call.lookups # <<>> =>
                   /\ desc[1] = "for"
                   /\ Contains(desc, <<" ", "to", " ", "be", " ">>)
                   /\ Len(call.lookups) = 1
    IN  (call.active /\ call.verb = <<"wait">>) => Desc(RemainingOf(call.expanded))

\* wait 3 seconds: wait_for_timeout(3000), True, no lookup
C19_Witness ==
    /\ call.active
    /\ call.step = Sentence(<< <<"wait">>, <<"3">>, <<"seconds">> >>)
    /\ objects = StepRepository
    /\ call.calls = << PageCall("wait_for_timeout", <<>>, <<>>, 3000, "ok") >>
    /\ call.lookups = <<>>
    /\ call.ret = TRUE

\* the calls of the last find step are the two-attempt search on locator
TwoAttempts(calls, locator) ==
    /\ calls # <<>>
    /\ calls[1] = PageCall("click", locator, <<>>, 5000, calls[1].out)
    /\ Len(calls) = IF calls[1].out # "Timeout" THEN 1
                    ELSE IF Fails(calls[2].out) THEN 2
                    ELSE IF Fails(calls[3].out) THEN 3
                    ELSE 4
    /\ Len(calls) >= 2 => calls[2] = PageCall("reload", <<>>, <<>>, 0, calls[2].out)
    /\ Len(calls) >= 3 =>
           calls[3] = PageCall("wait_for_load_state", <<>>, <<"networkidle">>, 0,
                               calls[3].out)
    /\ Len(calls) = 4 => calls[4] = PageCall("click", locator, <<>>, 30000, calls[4].out)
    /\ Cardinality({ i \in 1..Len(calls) : calls[i].api = "click" }) <= 2
    /\ Cardinality({ i \in 1..Len(calls) : calls[i].api = "reload" }) <= 1

\* the name a find step looks for: a ${var} bound in the context stands for
\* its value, surrounding quotes are removed
SearchedName(raw, ctx) ==
    LET Var(var_name) ==
            IF /\ Len(raw) >= 2
               /\ raw[1] = "${"
               /\ raw[Len(raw)] = "}"
               /\ HasKey(ctx, var_name)
            THEN ctx[IndexOf(ctx, var_name)].value
            ELSE raw
    IN  PairStripped(Var(Slice(raw, 2, Len(raw) - 1)), { "\"", "'" })

\* C20: find <record-type> with name <value> clicks the title-contains
\* locator with the 5 s timeout; only when that click times out does it
\* reload, wait for network idle and click once more with the 30 s timeout.
\* The step is True exactly when one of the clicks succeeds; there are at
\* most two clicks and one reload, and the locator is built from the name
\* alone, whatever the record type.
C20_FindRetriesOnce ==
    LET Found(m) ==
            m.found =>
                /\ TwoAttempts(call.calls,
                       <<"//a[contains(@title, '">>
                           \o SearchedName(Strip(m.after), call.before) \o <<"')]">>)
                /\ call.ret = \E i \in 1..Len(call.calls) :
                                  /\ call.calls[i].api = "click"
                                  /\ ~Fails(call.calls[i].out)
                /\ call.lookups = <<>>
    IN  (call.active /\ call.verb = <<"find">>) =>
            Found(MatchKeywords(RemainingOf(call.expanded), <<"with", "name">>))

\* find Account with name "Acme": the first click times out, the page is
\* reloaded, the second click succeeds
C20_Witness ==
    /\ call.active
    /\ call.step = Sentence(<< <<"find">>, <<"Account">>, <<"with">>, <<"name">>,
                               Quoted(<<"Acme">>) >>)
    /\ Len(call.calls) = 4
    /\ call.calls[1].target = <<"//a[contains(@title, '">> \o <<"Acme">> \o <<"')]">>
    /\ call.calls[1].out = "Timeout"
    /\ call.calls[4].num = 30000
    /\ call.calls[4].out = "ok"
    /\ call.ret = TRUE

\* the calls of the last select step are the three strategies, tried in
\* order on the locator of the dropdown, each one only when the one before
\* it raised
StrategiesInOrder(calls, locator, option) ==
    /\ calls # <<>>
    /\ Len(calls) <= 5
    /\ calls[1] = PageCall("select_option", locator, option, 0, calls[1].out)
    /\ Fails(calls[1].out) => Len(calls) >= 2
    /\ Len(calls) >= 2 =>
           /\ Fails(calls[1].out)
           /\ calls[2] = PageCall("click", locator, <<>>, 0, calls[2].out)
           /\ ~Fails(calls[2].out) => Len(calls) >= 3
    /\ Len(calls) >= 3 =>
           /\ ~Fails(calls[2].out)
           /\ calls[3] = PageCall("wait_for_timeout", <<>>, <<>>, 500, calls[3].out)
           /\ ~Fails(calls[3].out) => Len(calls) >= 4
    /\ Len(calls) >= 4 =>
           /\ ~Fails(calls[3].out)
           /\ calls[4] = PageCall("click", <<"text=">> \o option, <<>>, 0, calls[4].out)
           /\ Fails(calls[4].out) => Len(calls) = 5
    /\ Len(calls) = 5 =>
           /\ Fails(calls[4].out)
           /\ calls[5] = PageCall("click",
                                  <<"//li[contains(text(), '">> \o option \o <<"')]">>,
                                  <<>>, 0, calls[5].out)

\* C21: select <option> from <dropdown> tries the native selection by label
\* on the locator of the dropdown; when that raises, a click on the dropdown
\* and, after the pause of half a second, a click on text=<option>; when
\* that click raises, a click on the list item containing the option.  It
\* stops at the first strategy that succeeds and is True exactly when one
\* does; it is False when all raise, when the click that opens the dropdown
\* (or the pause after it) raises, and when the dropdown is not resolved.
C21_SelectStrategies ==
    LET Selected(m, found) ==
            IF ~m.found THEN call.calls = <<>> /\ ~call.ret
            ELSE IF found.exc # "none"
            THEN call.calls = <<>> /\ ~call.ret /\ call.lookups = <<Strip(m.after)>>
            ELSE /\ StrategiesInOrder(call.calls, found.value,
                        PairStripped(Strip(m.before), { "\"", "'" }))
                 /\ call.ret = ~Fails(call.calls[Len(call.calls)].out)
                 /\ call.ret = \/ ~Fails(call.calls[1].out)
                               \/ /\ Len(call.calls) >= 4
                                  /\ \E i \in 4..Len(call.calls) :
                                         ~Fails(call.calls[i].out)
        Desc(m) == Selected(m, get_object_locator(objects, Strip(m.after), <<>>))
    IN  (call.active /\ call.verb = <<"select">>) =>
            Desc(MatchKeywords(RemainingOf(call.expanded), <<"from">>))

\* select "Gold" from Tier: the native selection and the click on text=Gold
\* raise, the click on the list item succeeds
C21_Witness ==
    /\ call.active
    /\ call.step = Sentence(<< <<"select">>, Quoted(<<"Gold">>), <<"from">>, <<"Tier">> >>)
    /\ Len(call.calls) = 5
    /\ call.calls[1].target = <<"#tier">>
    /\ Fails(call.calls[1].out)
    /\ call.calls[2].out = "ok"
    /\ Fails(call.calls[4].out)
    /\ call.calls[5].target = <<"//li[contains(text(), '">> \o <<"Gold">> \o <<"')]">>
    /\ call.calls[5].out = "ok"
    /\ call.ret = TRUE

\* the last store step, with desc after the verb, bound its variable as
\* stated: the text or the input value of the element, or the literal
\* without its pair of surrounding quotes
StoredAsStated(m) ==
    LET Bound(variable_name, value) ==
            /\ HasKey(context_vars, variable_name)
            /\ context_vars = Put(call.before, variable_name, value)
        From(value_expr, variable_name) ==
            IF Contains(value_expr, <<"text", " ", "from">>)
            THEN /\ Len(call.calls) = 2
                 /\ call.calls[2].api = "inner_text"
                 /\ Bound(variable_name, ElementText(call.calls[2].out))
            ELSE IF Contains(value_expr, <<"value", " ", "from">>)
            THEN /\ Len(call.calls) = 2
                 /\ call.calls[2].api = "input_value"
                 /\ Bound(variable_name, ElementText(call.calls[2].out))
            ELSE /\ call.calls = <<>>
                 /\ Bound(variable_name, PairStripped(value_expr, { "\"", "'" }))
    IN  m.found /\ From(Strip(m.before), Strip(m.after))

\* a step that refers to a bound name is handed to its handler with the
\* value of the name in it
ExpandedWithValues ==
    \A i \in 1..Len(call.before) :
        Contains(call.step, Ref(call.before[i].key)) =>
            /\ Contains(call.expanded, call.before[i].value)
            /\ ~Contains(call.expanded, Ref(call.before[i].key))

\* C22 as stated: a successful store step binds its variable to the value of
\* its expression, and every later step that contains ${<var>} is expanded
\* with that value.
C22_StoreThenExpandAsStated ==
    /\ (call.active /\ call.verb = <<"store">> /\ call.ret) =>
           StoredAsStated(MatchKeywords(RemainingOf(call.expanded), <<"as">>))
    /\ (call.active /\ ~Contains(call.step, RandomMarker)) => ExpandedWithValues

\* C22 where it holds: a successful store step binds its variable as
\* stated, a failed one binds nothing, and a later step that refers to the
\* variable is expanded with its value when no value of the context holds
\* the ${...} of a bound name.
C22_StoreBinds ==
    /\ (call.active /\ call.verb = <<"store">> /\ call.ret) =>
           StoredAsStated(MatchKeywords(RemainingOf(call.expanded), <<"as">>))
    /\ (call.active /\ call.verb = <<"store">> /\ ~call.ret) =>
           context_vars = call.before
    /\ (call.active /\ ~Contains(call.step, RandomMarker)) =>
           \/ \E i \in 1..Len(call.before) :
                  HoldsBoundReference(call.before[i].value, call.before)
           \/ ExpandedWithValues

\* store "${b}" as a, store x as b, then click ${a}: the step is handed over
\* as click x, the value ${b} of a is not in it
C22_Witness ==
    /\ call.active
    /\ call.step = Sentence(<< <<"click">>, Ref(<<"a">>) >>)
    /\ HasKey(call.before, <<"a">>)
    /\ call.before[IndexOf(call.before, <<"a">>)].value = Ref(<<"b">>)
    /\ HasKey(call.before, <<"b">>)
    /\ call.expanded = Sentence(<< <<"click">>, <<"x">> >>)
    /\ ~Contains(call.expanded, Ref(<<"b">>))

\* the context after the call is the one before it with one more binding,
\* of a name current_<word>_name to a text that holds the time of the call
GeneratedNameBound ==
    \E i \in 1..Len(context_vars) :
        /\ Len(context_vars[i].key) = 3
        /\ context_vars[i].key[1] = "current_"
        /\ context_vars[i].key[3] = "_name"
        /\ Contains(context_vars[i].value, Decimal(call.t))
        /\ context_vars = Put(call.before, context_vars[i].key, context_vars[i].value)

\* C27 as stated: when execute_action returns False the context is what it
\* was before the call.
C27_FailureKeepsContextAsStated ==
    (call.active /\ ~call.ret) => context_vars = call.before

\* C27 amended: a step that returns False leaves the context as it was,
\* a failing store step included, unless the step contains ${RANDOM} and
\* "Name Field with" followed by a quoted text: the generated name is bound
\* under current_<word>_name before the handler is called, and stays bound
\* when the handler fails.
C27_FailureKeepsContextButGeneratedName ==
    (call.active /\ ~call.ret) =>
        \/ context_vars = call.before
        \/ /\ Contains(call.step, RandomMarker)
           /\ Contains(call.step, <<"Name", " ", "Field", " ", "with">>)
           /\ GeneratedNameBound

\* fill Opportunity Name Field with "Acme${RANDOM}" on an empty repository:
\* the field is not resolved, the step is False, and the context that was
\* empty binds current_name_name
C27_Witness ==
    /\ call.active
    /\ call.step = FillNameStep
    /\ objects = <<>>
    /\ call.ret = FALSE
    /\ call.calls = <<>>
    /\ call.before = <<>>
    /\ context_vars = NameBoundAt(call.t)

\* the empty name is resolved to the first entry of the repository, by the
\* partial tier
EmptyNameIsFirstEntry(found) ==
    /\ found.exc = "none"
    /\ found.tier = "partial"
    /\ found.matched = objects[1].key
    /\ found.value = objects[1].value

\* C28: on a repository that is not empty and has no entry of the empty
\* name, get_object_locator("") does not raise: it returns the locator of
\* the first entry, found by the partial tier.  A step that is the verb
\* click, hover or check alone looks the empty name up and makes its call on
\* that locator; it is True unless the call raises.  On an empty repository
\* the lookup raises and the step is False.
C28_EmptyNameResolves ==
    /\ (objects # <<>> /\ ~HasKey(objects, <<>>)) =>
           EmptyNameIsFirstEntry(get_object_locator(objects, <<>>, <<>>))
    /\ objects = <<>> => get_object_locator(objects, <<>>, <<>>).exc = "ValueError"
    /\ (call.active /\ Strip(call.expanded) \in { <<"click">>, <<"hover">>, <<"check">> }) =>
           /\ call.lookups = << <<>> >>
           /\ IF objects = <<>>
              THEN call.calls = <<>> /\ ~call.ret
              ELSE /\ Len(call.calls) = 1
                   /\ call.calls[1] = PageCall(call.verb[1], objects[1].value, <<>>, 0,
                                               call.calls[1].out)
                   /\ call.ret = ~Fails(call.calls[1].out)

\* the step hover, with nothing after the verb: the page hovers over #save,
\* the locator of the first entry, and the step is True
C28_Witness ==
    /\ call.active
    /\ call.step = <<"hover">>
    /\ objects = StepRepository
    /\ call.lookups = << <<>> >>
    /\ call.calls = << PageCall("hover", <<"#save">>, <<>>, 0, "ok") >>
    /\ call.ret = TRUE

=============================================================================
